---- MODULE Spec2Model ----
(***************************************************************************)
(* A model of the flowgo workflow engine: the command execution pipeline   *)
(* (command executor, interceptor chain, builder) and the in-memory task   *)
(* and runtime stores the commands operate on.                             *)
(*                                                                         *)
(* Every store handler is a pure operator from the store value (and its    *)
(* arguments) to the new store value and the returned error; the actions   *)
(* apply one handler per step, as a sequential caller does.                *)
(***************************************************************************)
EXTENDS Integers, Sequences, FiniteSets, TLC

VARIABLES
    tasks,            \* taskServiceImpl.tasks:       taskID -> Task
    comments,         \* taskServiceImpl.comments:    taskID -> sequence of comments
    attachments,      \* taskServiceImpl.attachments: taskID -> sequence of attachments
    taskVariables,    \* taskServiceImpl.variables:   taskID -> (name -> value)
    processInstances, \* runtimeServiceImpl.processInstances
    executions,       \* runtimeServiceImpl.executions
    variables,        \* runtimeServiceImpl.variables: executionID -> (name -> value)
    nextID,           \* the next identifier uuid.New() hands out
    ret,              \* what the last store call or command returned
    builder,          \* a DefaultCommandExecutorBuilder
    executor,         \* the CommandExecutorImpl built last
    trav,             \* what the last CommandExecutor.Execute did and returned
    definitions,      \* repositoryServiceImpl.definitions: id -> ProcessDefinition
    rtMu,             \* runtimeServiceImpl.mu: who holds the RWMutex
    calls,            \* the store calls in flight, one per goroutine
    taskMu,           \* taskServiceImpl.mu: who holds the RWMutex
    heap,             \* the map objects, by address: what each holds
    scopes,           \* the address of each execution's and each task's scope map
    held,             \* the maps a caller holds, by address: what it expects in each
    running,          \* ProcessEngineImpl.running
    deployments,      \* repositoryServiceImpl.deployments: id -> Deployment
    nextUUID,         \* the next identifier uuid.New() hands the repository store
    repoMu,           \* repositoryServiceImpl.mu: who holds the RWMutex
    engineMu          \* ProcessEngineImpl.mu: who holds the RWMutex

taskVars  == <<tasks, comments, attachments, taskVariables>>
rtVars    == <<processInstances, executions, variables, nextID>>
chainVars == <<builder, executor, trav>>
repoVars  == <<definitions, deployments, nextUUID, repoMu>>
concVars  == <<rtMu, calls>>
\* what the sequential task, runtime and chain calls leave alone
aliasVars == <<heap, scopes, held>>
engineVars == <<running, engineMu>>
otherVars == <<repoVars, concVars, aliasVars, taskMu, engineVars>>
vars      == <<taskVars, rtVars, ret, chainVars, otherVars>>

----------------------------------------------------------------------------
(* Go values *)

\* An error is the list of the messages fmt.Errorf("...: %w", err) stacks up,
\* outermost first; nil is the empty list.
NoErr == <<>>

Errorf(kind) == <<kind>>

\* fmt.Errorf("<kind>: %w", err)
Wrap(kind, err) == <<kind>> \o err

\* errors.Is(err, target) for a target that is one error value
ErrorsIs(err, kind) == \E i \in DOMAIN err : err[i] = kind

\* a nil interface value (a nil result, a nil *Task)
Nil == "<nil>"

\* a nil map[string]interface{}: ranging over it yields nothing, its length is 0
NilMap == [k \in {"<nil>"} |-> 0]

EmptyMap == [k \in {} |-> 0]

\* delete(m, k)
MapDelete(m, k) == [x \in DOMAIN m \ {k} |-> m[x]]

\* m[k] = v
MapPut(m, k, v) == [x \in DOMAIN m \cup {k} |-> IF x = k THEN v ELSE m[x]]

\* for k, v := range src { dst[k] = v }
MapMerge(dst, src) ==
    IF src = NilMap THEN dst
    ELSE [x \in DOMAIN dst \cup DOMAIN src |-> IF x \in DOMAIN src THEN src[x] ELSE dst[x]]

----------------------------------------------------------------------------
(* The interceptor chain: engine/command_executor.go and the interceptors  *)
(* of package engine.                                                      *)

\* A command handed to the executor: nil, or a command whose body returns
\* body[k] on its k-th execution (the last entry from then on).
NilCommand == [isNil |-> TRUE, body |-> <<>>]

Command(outcomes) == [isNil |-> FALSE, body |-> outcomes]

\* command.Execute(ctx, commandContext), executed for the k-th time
CommandExecute(command, k) ==
    command.body[IF k <= Len(command.body) THEN k ELSE Len(command.body)]

\* What one traversal did: the returned pair, the interceptors entered (in
\* order), the log lines written, who ran the command body (one entry per
\* run), and the life of the CommandContexts.
Outcome(res, err, entered, log, bodyRuns, ctxEvents) ==
    [res |-> res, err |-> err, entered |-> entered, log |-> log,
     bodyRuns |-> bodyRuns, ctxEvents |-> ctxEvents]

NoTraversal == Outcome(Nil, NoErr, <<>>, <<>>, <<>>, <<>>)

\* a nil-pointer dereference (i.next.Execute with no next)
Panic == <<"panic">>

\* unbounded recursion: the base interceptor of the last link calls
\* executor.Execute, which starts the chain again
StackOverflow == <<"stack overflow">>

\* the goroutine died in the call: nothing after the call runs
Dead(o) == o.err = Panic \/ o.err = StackOverflow

Name(interceptor) ==
    IF interceptor.kind = "Custom" THEN interceptor.id ELSE interceptor.kind

\* BaseCommandInterceptor.Execute of a user-supplied interceptor; next is what
\* i.next.Execute returns
BaseCommandInterceptorExecute(id, hasNext, next) ==
    IF hasNext
    THEN [next EXCEPT !.entered = <<id>> \o @]
    ELSE Outcome(Nil, StackOverflow, <<id>>, <<>>, <<>>, <<>>)

\* LoggingInterceptor.Execute that writes the completion line whatever the
\* error
LoggingWithoutFailureLine(next) ==
    IF Dead(next)
    THEN [next EXCEPT !.entered = <<"Logging">> \o @, !.log = <<"start">> \o @]
    ELSE IF next.err # NoErr
    THEN [next EXCEPT !.res = Nil, !.entered = <<"Logging">> \o @,
                      !.log = <<"start">> \o @ \o <<"completed">>]
    ELSE [next EXCEPT !.entered = <<"Logging">> \o @,
                      !.log = <<"start">> \o @ \o <<"completed">>]

\* LoggingInterceptor.Execute; next is what i.next.Execute returns
LoggingInterceptorExecute(next) ==
    IF Dead(next)
    THEN [next EXCEPT !.entered = <<"Logging">> \o @, !.log = <<"start">> \o @]
    ELSE IF next.err # NoErr
    THEN [next EXCEPT !.res = Nil, !.entered = <<"Logging">> \o @,
                      !.log = <<"start">> \o @ \o <<"failed">>]
    ELSE [next EXCEPT !.entered = <<"Logging">> \o @,
                      !.log = <<"start">> \o @ \o <<"completed">>]

\* TransactionInterceptor.Execute; next is what i.next.Execute returns
TransactionInterceptorExecute(next) ==
    IF next.err # NoErr
    THEN [next EXCEPT !.res = Nil, !.entered = <<"Transaction">> \o @]
    ELSE [next EXCEPT !.entered = <<"Transaction">> \o @]

\* ContextInterceptor.Execute returning on the error path before the
\* CommandContext is closed
ContextWithoutCloseOnError(command, n) ==
    LET r == CommandExecute(command, n + 1)
    IN  IF r.err # NoErr
        THEN Outcome(Nil, r.err, <<"Context">>, <<>>, <<"Context">>,
                     <<"new", "setException">>)
        ELSE Outcome(r.res, NoErr, <<"Context">>, <<>>, <<"Context">>,
                     <<"new", "setResult", "close">>)

\* the ContextInterceptor.Execute after which the command's body is run a
\* second time
ContextRunningBodyTwice(command, n) ==
    LET r == CommandExecute(command, n + 2)
    IN  Outcome(IF r.err # NoErr THEN Nil ELSE r.res, r.err, <<"Context">>, <<>>,
                <<"Context", "Context">>, <<"new", "close">>)

\* ContextInterceptor.Execute: makes the CommandContext and runs the command
\* body itself; n is how often the body has run before
ContextInterceptorExecute(command, n) ==
    LET r == CommandExecute(command, n + 1)
    IN  IF r.err # NoErr
        THEN Outcome(Nil, r.err, <<"Context">>, <<>>, <<"Context">>,
                     <<"new", "setException", "close">>)
        ELSE Outcome(r.res, NoErr, <<"Context">>, <<>>, <<"Context">>,
                     <<"new", "setResult", "close">>)

\* CommandInvoker.Execute running the body with whatever GetCommandContext
\* returned
CommandInvokerUnchecked(command, hasCtx, n) ==
    LET r == CommandExecute(command, n + 1)
    IN  Outcome(r.res, r.err, <<"Invoker">>, <<>>, <<"Invoker">>, <<>>)

\* CommandInvoker.Execute: hasCtx says whether ctx carries a CommandContext
CommandInvokerExecute(command, hasCtx, n) ==
    IF ~hasCtx
    THEN Outcome(Nil, Errorf("ContextMissing"), <<"Invoker">>, <<>>, <<>>, <<>>)
    ELSE LET r == CommandExecute(command, n + 1)
         IN  Outcome(r.res, r.err, <<"Invoker">>, <<>>, <<"Invoker">>, <<>>)

\* isRetryableError classifying every error as retryable
isRetryableErrorAlways(err) == TRUE

isRetryableError(err) == FALSE

\* NewRetryInterceptor(maxRetries, retryDelay); the interceptor classifies
\* errors with isRetryableError
NewRetryInterceptor(maxRetries) ==
    [kind |-> "Retry", maxRetries |-> maxRetries, predicate |-> "isRetryableError"]

\* The retry classification as a pluggable predicate: the same interceptor
\* with a predicate that classifies every error as retryable. The source has
\* no such interceptor (its classification is a TODO).
WithEveryErrorRetryable(interceptor) == [interceptor EXCEPT !.predicate = "every"]

\* what the interceptor's predicate says of err
RetryableBy(interceptor, err) ==
    IF interceptor.predicate = "every" THEN TRUE ELSE isRetryableError(err)

RECURSIVE Execute(_, _, _, _, _)
RECURSIVE RetryLoop(_, _, _, _, _, _, _)

\* RetryInterceptor.Execute's loop from `attempt` on; acc is what the earlier
\* attempts did.
RetryLoop(chain, i, command, hasCtx, n, attempt, acc) ==
    LET failed(o) == [o EXCEPT !.res = Nil, !.err = Wrap("RetryExhausted", o.err)]
    IN  IF attempt > chain[i].maxRetries THEN failed(acc)
        ELSE LET o == Execute(chain, i + 1, command, hasCtx, n + Len(acc.bodyRuns))
                 m == Outcome(o.res, o.err,
                              acc.entered \o o.entered,
                              acc.log \o (IF attempt > 0 THEN <<"retry">> ELSE <<>>) \o o.log,
                              acc.bodyRuns \o o.bodyRuns,
                              acc.ctxEvents \o o.ctxEvents)
             IN  IF o.err = NoErr \/ Dead(o) THEN m
                 ELSE IF ~RetryableBy(chain[i], o.err) THEN failed(m)
                 ELSE RetryLoop(chain, i, command, hasCtx, n, attempt + 1, m)

\* chain[i].Execute(ctx, command, executor): hasCtx says whether ctx carries a
\* CommandContext, n how often the command body has run before. Past the end
\* of the chain it is a call through a nil next.
Execute(chain, i, command, hasCtx, n) ==
    IF i > Len(chain) THEN Outcome(Nil, Panic, <<>>, <<>>, <<>>, <<>>)
    ELSE
    LET ic   == chain[i]
        next == Execute(chain, i + 1, command, hasCtx, n)
    IN  CASE ic.kind = "Logging" -> LoggingInterceptorExecute(next)
          [] ic.kind = "Transaction" -> TransactionInterceptorExecute(next)
          [] ic.kind = "Retry" ->
               LET o == RetryLoop(chain, i, command, hasCtx, n, 0, NoTraversal)
               IN  [o EXCEPT !.entered = <<"Retry">> \o @]
          [] ic.kind = "Context" -> ContextInterceptorExecute(command, n)
          [] ic.kind = "Invoker" -> CommandInvokerExecute(command, hasCtx, n)
          [] ic.kind = "Custom" ->
               BaseCommandInterceptorExecute(ic.id, i < Len(chain), next)

\* NewCommandExecutor(interceptors...): panics on an empty list, else links
\* interceptors[i] to interceptors[i+1] and starts at the first.
NewCommandExecutor(interceptors) ==
    IF Len(interceptors) = 0
    THEN [panicked |-> TRUE, chain |-> <<>>]
    ELSE [panicked |-> FALSE, chain |-> interceptors]

\* CommandExecutorImpl.Execute checking the command only after the first
\* interceptor has been entered
ExecuteNilCheckedLate(e, hasCtx, command) ==
    IF command.isNil
    THEN Outcome(Nil, Errorf("InvalidArgument"), <<Name(e.chain[1])>>, <<>>, <<>>, <<>>)
    ELSE Execute(e.chain, 1, command, hasCtx, 0)

\* CommandExecutorImpl.Execute(ctx, command): hasCtx says whether the caller's
\* ctx carries a CommandContext (the caller is itself a command body)
ExecutorExecute(e, hasCtx, command) ==
    IF command.isNil
    THEN Outcome(Nil, Errorf("InvalidArgument"), <<>>, <<>>, <<>>, <<>>)
    ELSE Execute(e.chain, 1, command, hasCtx, 0)

DefaultRetryAttempts == 3

NewDefaultCommandExecutorBuilder ==
    [interceptors |-> <<>>, enableLogging |-> TRUE, enableTransaction |-> TRUE,
     enableRetry |-> FALSE, retryAttempts |-> DefaultRetryAttempts]

WithLogging(b, enabled) == [b EXCEPT !.enableLogging = enabled]

WithTransaction(b, enabled) == [b EXCEPT !.enableTransaction = enabled]

WithRetry(b, enabled, attempts) ==
    [b EXCEPT !.enableRetry = enabled, !.retryAttempts = attempts]

AddInterceptor(b, interceptor) == [b EXCEPT !.interceptors = Append(@, interceptor)]

\* DefaultCommandExecutorBuilder.Build
Build(b) ==
    NewCommandExecutor(
        (IF b.enableLogging THEN <<[kind |-> "Logging"]>> ELSE <<>>)
        \o (IF b.enableRetry
            THEN <<NewRetryInterceptor(b.retryAttempts)>> ELSE <<>>)
        \o b.interceptors
        \o (IF b.enableTransaction THEN <<[kind |-> "Transaction"]>> ELSE <<>>)
        \o <<[kind |-> "Context"]>>
        \o <<[kind |-> "Invoker"]>>)

\* a user-supplied interceptor that embeds BaseCommandInterceptor and delegates
CustomInterceptor(id) == [kind |-> "Custom", id |-> id]

----------------------------------------------------------------------------
(* The process engine: ProcessEngineImpl's lifecycle.                       *)

\* newProcessEngineImpl's executor, one for all commands
EngineExecutor ==
    Build(WithTransaction(WithLogging(NewDefaultCommandExecutorBuilder, TRUE), TRUE))

EngineServices == <<"repository", "runtime", "task", "history">>

\* service.Initialize(ctx): every service of the engine returns nil
Initialize(service) == NoErr

\* service.Shutdown(ctx): every service of the engine returns nil
Shutdown(service) == NoErr

\* the first error of errs, wrapped: the calls after it are not made
RECURSIVE FirstFailure(_, _, _)

FirstFailure(errs, i, kind) ==
    IF i > Len(errs) THEN NoErr
    ELSE IF errs[i] # NoErr THEN Wrap(kind, errs[i])
    ELSE FirstFailure(errs, i + 1, kind)

\* ProcessEngineImpl.Start setting the flag whatever it was
StartUnchecked(isRunning) == [running |-> TRUE, err |-> NoErr]

\* ProcessEngineImpl.Start(ctx) on an engine whose flag is isRunning
Start(isRunning) ==
    IF isRunning THEN [running |-> isRunning, err |-> Errorf("AlreadyRunning")]
    ELSE LET err == FirstFailure([i \in DOMAIN EngineServices |->
                                      Initialize(EngineServices[i])], 1, "StartFailed")
         IN  IF err # NoErr THEN [running |-> isRunning, err |-> err]
             ELSE [running |-> TRUE, err |-> NoErr]

\* ProcessEngineImpl.Stop(ctx): the services are shut down in reverse order
Stop(isRunning) ==
    IF ~isRunning THEN [running |-> isRunning, err |-> Errorf("NotRunning")]
    ELSE LET reverse == [i \in 1 .. Len(EngineServices) |->
                            EngineServices[Len(EngineServices) + 1 - i]]
             err == FirstFailure([i \in DOMAIN reverse |-> Shutdown(reverse[i])],
                                 1, "StopFailed")
         IN  IF err # NoErr THEN [running |-> isRunning, err |-> err]
             ELSE [running |-> FALSE, err |-> NoErr]

\* ProcessEngineImpl.ExecuteCommand handing every command to the executor
ExecuteCommandUnchecked(isRunning, hasCtx, command) ==
    ExecutorExecute(EngineExecutor, hasCtx, command)

\* ProcessEngineImpl.ExecuteCommand(ctx, command) on an engine whose flag is
\* isRunning
ExecuteCommand(isRunning, hasCtx, command) ==
    IF ~isRunning
    THEN Outcome(Nil, Errorf("NotRunning"), <<>>, <<>>, <<>>, <<>>)
    ELSE ExecutorExecute(EngineExecutor, hasCtx, command)

----------------------------------------------------------------------------
(* The repository store: the process definitions of repository.Service.     *)

\* fmt.Sprintf("%s:%d:%s", processID, version, uuid.New().String())
DefinitionID(processID, version, uuid) ==
    processID \o ":" \o ToString(version) \o ":" \o ToString(uuid)

\* the definitions of one key
WithKey(defs, key) == {id \in DOMAIN defs : defs[id].Key = key}

RepositoryStore(defs, deps, uuid) ==
    [definitions |-> defs, deployments |-> deps, nextUUID |-> uuid]

\* the fields ValidateProcessDefinition asks for, in the order of its checks
RequiredFields == <<"id", "name", "nodes", "edges">>

\* resource.Content: whether it is JSON, the fields of its object and the
\* value of "id"
Content(json, fields, id) == [json |-> json, fields |-> fields, id |-> id]

Resource(name, content) == [Name |-> name, Content |-> content]

\* Service.ValidateProcessDefinition
ValidateProcessDefinition(content) ==
    IF ~content.json THEN Errorf("InvalidJSON")
    ELSE LET missing == {i \in DOMAIN RequiredFields :
                            RequiredFields[i] \notin content.fields}
         IN  IF missing = {} THEN NoErr
             ELSE Errorf("missing " \o
                         RequiredFields[CHOOSE i \in missing : \A j \in missing : i <= j])

\* version := 1; for _, existingDef := range s.definitions { ... }: one more
\* than the greatest version of the key, whatever the order of the range
NextVersion(defs, processID) ==
    LET taken == {defs[id].Version : id \in WithKey(defs, processID)}
    IN  IF taken = {} THEN 1
        ELSE (CHOOSE v \in taken : \A w \in taken : w <= v) + 1

\* the definition DeployInternal makes of a resource
NewProcessDefinition(processID, version, uuid, deploymentID, resourceName) ==
    [ID |-> DefinitionID(processID, version, uuid), Key |-> processID,
     Version |-> version, DeploymentID |-> deploymentID,
     ResourceName |-> resourceName, Suspended |-> FALSE]

\* DeployInternal's loop over the resources from the i-th on: a resource that
\* does not parse or is not valid ends the call, after the definitions of the
\* resources before it were stored
RECURSIVE DeployResources(_, _, _, _)

DeployResources(repo, deploymentID, resources, i) ==
    IF i > Len(resources) THEN [repo |-> repo, err |-> NoErr]
    ELSE LET resource == resources[i]
             invalid == ValidateProcessDefinition(resource.Content)
             processID == IF "id" \in resource.Content.fields
                          THEN resource.Content.id ELSE ""
             def == NewProcessDefinition(processID,
                                         NextVersion(repo.definitions, processID),
                                         repo.nextUUID, deploymentID, resource.Name)
         IN  IF ~resource.Content.json
             THEN [repo |-> repo, err |-> Wrap("ParseFailed", Errorf("InvalidJSON"))]
             ELSE IF invalid # NoErr
             THEN [repo |-> repo, err |-> Wrap("InvalidDefinition", invalid)]
             ELSE DeployResources(
                      [repo EXCEPT !.definitions = MapPut(@, def.ID, def),
                                   !.nextUUID = @ + 1],
                      deploymentID, resources, i + 1)

\* Service.DeployInternal(ctx, name, category, tenantID, resources); the first
\* uuid.New() is the deployment's id
DeployInternal(repo, resources) ==
    LET deploymentID == repo.nextUUID
        r == DeployResources([repo EXCEPT !.nextUUID = @ + 1], deploymentID, resources, 1)
    IN  IF r.err # NoErr
        THEN [repo |-> r.repo, deployment |-> Nil, err |-> r.err]
        ELSE [repo |-> [r.repo EXCEPT !.deployments =
                            MapPut(@, deploymentID, [Resources |-> resources])],
              deployment |-> deploymentID, err |-> NoErr]

\* Service.DeleteDeployment
DeleteDeployment(repo, deploymentID, cascade) ==
    IF deploymentID \notin DOMAIN repo.deployments
    THEN [repo |-> repo, err |-> Errorf("NotFound")]
    ELSE [repo |-> [repo EXCEPT
                       !.definitions =
                           IF cascade
                           THEN [id \in {x \in DOMAIN @ :
                                           @[x].DeploymentID # deploymentID} |-> @[id]]
                           ELSE @,
                       !.deployments = MapDelete(@, deploymentID)],
          err |-> NoErr]

\* Service.GetProcessModel: the content of the first resource of the
\* definition's deployment that has the definition's resource name
GetProcessModel(repo, processDefinitionID) ==
    IF processDefinitionID \notin DOMAIN repo.definitions
    THEN [result |-> Nil, err |-> Errorf("NotFound")]
    ELSE LET def == repo.definitions[processDefinitionID]
         IN  IF def.DeploymentID \notin DOMAIN repo.deployments
             THEN [result |-> Nil, err |-> Errorf("DeploymentNotFound")]
             ELSE LET resources == repo.deployments[def.DeploymentID].Resources
                      named == {i \in DOMAIN resources :
                                   resources[i].Name = def.ResourceName}
                  IN  IF named = {}
                      THEN [result |-> Nil, err |-> Errorf("ResourceNotFound")]
                      ELSE [result |-> resources[CHOOSE i \in named :
                                                    \A j \in named : i <= j].Content,
                            err |-> NoErr]

\* the lookup that takes the smallest version instead of the greatest
GetProcessDefinitionByKeyOldest(defs, key) ==
    LET found == WithKey(defs, key)
    IN  IF found = {}
        THEN [result |-> Nil, err |-> Errorf("NotFound")]
        ELSE [result |-> defs[CHOOSE id \in found :
                             \A other \in found : defs[other].Version >= defs[id].Version],
              err |-> NoErr]

\* for _, def := range s.definitions { ... }: the definitions still to visit,
\* in some order, and latestDef so far (<<>> for nil)
RECURSIVE ScanForLatest(_, _, _, _)
ScanForLatest(defs, todo, key, latestDef) ==
    IF todo = {} THEN latestDef
    ELSE LET id == CHOOSE x \in todo : TRUE
             def == defs[id]
         IN  ScanForLatest(defs, todo \ {id}, key,
                           IF /\ def.Key = key
                              /\ (latestDef = <<>> \/ def.Version > latestDef[1].Version)
                           THEN <<def>> ELSE latestDef)

\* Service.GetProcessDefinitionByKey
GetProcessDefinitionByKey(defs, key) ==
    LET latestDef == ScanForLatest(defs, DOMAIN defs, key, <<>>)
    IN  IF latestDef = <<>>
        THEN [result |-> Nil, err |-> Errorf("NotFound")]
        ELSE [result |-> latestDef[1], err |-> NoErr]

\* Service.SuspendProcessDefinition
SuspendProcessDefinition(defs, processDefinitionID) ==
    IF processDefinitionID \notin DOMAIN defs
    THEN [defs |-> defs, err |-> Errorf("NotFound")]
    ELSE [defs |-> [defs EXCEPT ![processDefinitionID].Suspended = TRUE], err |-> NoErr]

\* Service.ActivateProcessDefinition
ActivateProcessDefinition(defs, processDefinitionID) ==
    IF processDefinitionID \notin DOMAIN defs
    THEN [defs |-> defs, err |-> Errorf("NotFound")]
    ELSE [defs |-> [defs EXCEPT ![processDefinitionID].Suspended = FALSE], err |-> NoErr]

----------------------------------------------------------------------------
(* The runtime store: runtimeServiceImpl.                                   *)

\* the empty string, as an execution or process instance id
NoID == 0

RuntimeStore(pi, ex, vs, nid) ==
    [processInstances |-> pi, executions |-> ex, variables |-> vs, nextID |-> nid]

\* runtimeServiceImpl.startProcessInstance; uuid.New() is rt.nextID
startProcessInstance(rt, processDefinition, businessKey, vs) ==
    IF processDefinition.Suspended
    THEN [rt |-> rt, instance |-> NoID, err |-> Errorf("DefinitionSuspended")]
    ELSE LET id == rt.nextID
             processInstance == [ProcessDefinitionID |-> processDefinition.ID,
                                 BusinessKey |-> businessKey,
                                 Suspended |-> FALSE]
             execution == [ProcessInstanceID |-> id, ParentID |-> NoID,
                           IsActive |-> TRUE, IsScope |-> TRUE, Suspended |-> FALSE]
         IN  [rt |-> [processInstances |-> MapPut(rt.processInstances, id, processInstance),
                      executions |-> MapPut(rt.executions, id, execution),
                      variables |-> IF vs # NilMap
                                    THEN MapPut(rt.variables, id, MapMerge(EmptyMap, vs))
                                    ELSE rt.variables,
                      nextID |-> id + 1],
              instance |-> id, err |-> NoErr]

\* runtimeServiceImpl.StartProcessInstanceByKey
StartProcessInstanceByKey(rt, defs, processDefinitionKey, vs) ==
    LET found == GetProcessDefinitionByKey(defs, processDefinitionKey)
    IN  IF found.err # NoErr
        THEN [rt |-> rt, instance |-> NoID,
              err |-> Wrap("failed to get process definition", found.err)]
        ELSE startProcessInstance(rt, found.result, "", vs)

\* StartProcessInstanceCommand.Execute with ProcessDefinitionKey set and no
\* business key; the err the runtime service returns is assigned to the err
\* declared by := in the branch, so the function-level err stays nil
StartProcessInstanceCommandExecute(rt, defs, processDefinitionKey, vs) ==
    LET processDef == GetProcessDefinitionByKey(defs, processDefinitionKey)
    IN  IF processDef.err # NoErr
        THEN [rt |-> rt, instance |-> NoID, err |-> Wrap("NotFound", processDef.err)]
        ELSE IF processDef.result.Suspended
        THEN [rt |-> rt, instance |-> NoID, err |-> Errorf("DefinitionSuspended")]
        ELSE LET started == StartProcessInstanceByKey(rt, defs, processDefinitionKey, vs)
             IN  [rt |-> started.rt, instance |-> started.instance, err |-> NoErr]

\* the delete that leaves the variable scopes of the executions behind
DeleteKeepingScopes(rt, processInstanceID) ==
    IF processInstanceID \notin DOMAIN rt.processInstances
    THEN [rt |-> rt, err |-> Errorf("NotFound")]
    ELSE LET gone == {id \in DOMAIN rt.executions :
                         rt.executions[id].ProcessInstanceID = processInstanceID}
         IN  [rt |-> [rt EXCEPT
                        !.executions = [id \in DOMAIN @ \ gone |-> @[id]],
                        !.processInstances = MapDelete(@, processInstanceID)],
              err |-> NoErr]

\* runtimeServiceImpl.DeleteProcessInstance
DeleteProcessInstance(rt, processInstanceID) ==
    IF processInstanceID \notin DOMAIN rt.processInstances
    THEN [rt |-> rt, err |-> Errorf("NotFound")]
    ELSE LET gone == {id \in DOMAIN rt.executions :
                         rt.executions[id].ProcessInstanceID = processInstanceID}
         IN  [rt |-> [rt EXCEPT
                        !.executions = [id \in DOMAIN @ \ gone |-> @[id]],
                        !.variables = [id \in DOMAIN @ \ gone |-> @[id]],
                        !.processInstances = MapDelete(@, processInstanceID)],
              err |-> NoErr]

\* the suspend that refuses an instance that is suspended already
SuspendProcessInstanceOnce(rt, processInstanceID) ==
    IF processInstanceID \notin DOMAIN rt.processInstances
    THEN [rt |-> rt, err |-> Errorf("NotFound")]
    ELSE IF rt.processInstances[processInstanceID].Suspended
    THEN [rt |-> rt, err |-> Errorf("AlreadySuspended")]
    ELSE [rt |-> [rt EXCEPT !.processInstances[processInstanceID].Suspended = TRUE],
          err |-> NoErr]

\* runtimeServiceImpl.SuspendProcessInstance
SuspendProcessInstance(rt, processInstanceID) ==
    IF processInstanceID \notin DOMAIN rt.processInstances
    THEN [rt |-> rt, err |-> Errorf("NotFound")]
    ELSE [rt |-> [rt EXCEPT !.processInstances[processInstanceID].Suspended = TRUE],
          err |-> NoErr]

\* runtimeServiceImpl.ActivateProcessInstance
ActivateProcessInstance(rt, processInstanceID) ==
    IF processInstanceID \notin DOMAIN rt.processInstances
    THEN [rt |-> rt, err |-> Errorf("NotFound")]
    ELSE [rt |-> [rt EXCEPT !.processInstances[processInstanceID].Suspended = FALSE],
          err |-> NoErr]

\* runtimeServiceImpl.SetVariable
SetVariable(rt, executionID, variableName, value) ==
    IF executionID \notin DOMAIN rt.executions
    THEN [rt |-> rt, err |-> Errorf("NotFound")]
    ELSE LET scope == IF executionID \in DOMAIN rt.variables
                      THEN rt.variables[executionID] ELSE EmptyMap
         IN  [rt |-> [rt EXCEPT !.variables =
                         MapPut(@, executionID, MapPut(scope, variableName, value))],
              err |-> NoErr]

\* the SetVariables that does not look for the execution
SetVariablesUnchecked(rt, executionID, vs) ==
    LET scope == IF executionID \in DOMAIN rt.variables
                 THEN rt.variables[executionID] ELSE EmptyMap
    IN  [rt |-> [rt EXCEPT !.variables = MapPut(@, executionID, MapMerge(scope, vs))],
         err |-> NoErr]

\* runtimeServiceImpl.SetVariables
SetVariables(rt, executionID, vs) ==
    IF executionID \notin DOMAIN rt.executions
    THEN [rt |-> rt, err |-> Errorf("NotFound")]
    ELSE LET scope == IF executionID \in DOMAIN rt.variables
                      THEN rt.variables[executionID] ELSE EmptyMap
         IN  [rt |-> [rt EXCEPT !.variables = MapPut(@, executionID, MapMerge(scope, vs))],
              err |-> NoErr]

\* runtimeServiceImpl.GetVariable: nil for a variable that is not set
GetVariable(rt, executionID, variableName) ==
    IF executionID \notin DOMAIN rt.executions
    THEN [result |-> Nil, err |-> Errorf("NotFound")]
    ELSE [result |-> IF /\ executionID \in DOMAIN rt.variables
                        /\ variableName \in DOMAIN rt.variables[executionID]
                     THEN rt.variables[executionID][variableName] ELSE Nil,
          err |-> NoErr]

\* runtimeServiceImpl.GetVariables: a copy of the scope, empty when there is none
GetVariables(rt, executionID) ==
    IF executionID \notin DOMAIN rt.executions
    THEN [result |-> NilMap, err |-> Errorf("NotFound")]
    ELSE [result |-> IF executionID \in DOMAIN rt.variables
                     THEN MapMerge(EmptyMap, rt.variables[executionID]) ELSE EmptyMap,
          err |-> NoErr]

\* runtimeServiceImpl.RemoveVariable
RemoveVariable(rt, executionID, variableName) ==
    IF executionID \notin DOMAIN rt.executions
    THEN [rt |-> rt, err |-> Errorf("NotFound")]
    ELSE [rt |-> IF executionID \in DOMAIN rt.variables
                 THEN [rt EXCEPT !.variables[executionID] = MapDelete(@, variableName)]
                 ELSE rt,
          err |-> NoErr]

\* runtimeServiceImpl.SignalWithVariables: merges the variables; continuing the
\* execution is a TODO of the code, so an accepted signal changes nothing else
SignalWithVariables(rt, executionID, vs) ==
    IF executionID \notin DOMAIN rt.executions
    THEN [rt |-> rt, err |-> Errorf("NotFound")]
    ELSE [rt |-> IF vs # NilMap
                 THEN LET scope == IF executionID \in DOMAIN rt.variables
                                   THEN rt.variables[executionID] ELSE EmptyMap
                      IN  [rt EXCEPT !.variables =
                              MapPut(@, executionID, MapMerge(scope, vs))]
                 ELSE rt,
          err |-> NoErr]

\* runtimeServiceImpl.Signal
Signal(rt, executionID) == SignalWithVariables(rt, executionID, NilMap)

----------------------------------------------------------------------------
(* The task store: taskServiceImpl.                                         *)

\* a nil *time.Time, and the instant time.Now() returns
NilTime == "nil"

Now == "now"

TaskStore(ts, cs, as, vs) ==
    [tasks |-> ts, comments |-> cs, attachments |-> as, variables |-> vs]

\* taskServiceImpl.NewTask: a task nobody has claimed, not yet saved
NewTask ==
    [Assignee |-> "", ClaimTime |-> NilTime, Owner |-> "", Suspended |-> FALSE,
     ExecutionID |-> NoID, CandidateUsers |-> <<>>, CandidateGroups |-> <<>>]

\* for _, x := range list { if x == v { ... } }
Contains(list, v) == \E i \in DOMAIN list : list[i] = v

\* append(list[:i], list[i+1:]...) for the first i with list[i] == v
RemoveFirst(list, v) ==
    IF ~Contains(list, v) THEN list
    ELSE LET i == CHOOSE j \in DOMAIN list :
                      list[j] = v /\ \A k \in 1..(j - 1) : list[k] # v
         IN  SubSeq(list, 1, i - 1) \o SubSeq(list, i + 1, Len(list))

\* The executor NewTaskService gives the service: engine.NewCommandExecutor()
\* without interceptors. The constructor panics on that call; the model keeps
\* the service and lets every use of this executor panic.
TaskServiceExecutor == NewCommandExecutor(<<>>)

\* StartProcessInstanceCommand{}.Execute: neither a definition id nor a key
StartProcessInstanceCommandEmpty ==
    Command(<<[res |-> Nil, err |-> Errorf("InvalidArgument")]>>)

\* taskServiceImpl.GetTask: what the service's executor returns for an empty
\* StartProcessInstanceCommand; the task map is not read
GetTask(s, taskID) ==
    LET o == ExecutorExecute(TaskServiceExecutor, FALSE, StartProcessInstanceCommandEmpty)
    IN  [task |-> o.res, err |-> o.err]

\* taskServiceImpl.SaveTask
SaveTask(s, taskID, task) == [s |-> [s EXCEPT !.tasks = MapPut(@, taskID, task)], err |-> NoErr]

\* taskServiceImpl.DeleteTask
DeleteTask(s, taskID) ==
    IF taskID \notin DOMAIN s.tasks
    THEN [s |-> s, err |-> Errorf("NotFound")]
    ELSE [s |-> [tasks |-> MapDelete(s.tasks, taskID),
                 comments |-> MapDelete(s.comments, taskID),
                 attachments |-> MapDelete(s.attachments, taskID),
                 variables |-> MapDelete(s.variables, taskID)],
          err |-> NoErr]

\* taskServiceImpl.Claim dropping the check of the current assignee
ClaimAnyway(s, taskID, userID) ==
    IF taskID \notin DOMAIN s.tasks
    THEN [s |-> s, err |-> Errorf("NotFound")]
    ELSE [s |-> [s EXCEPT !.tasks[taskID].Assignee = userID,
                          !.tasks[taskID].ClaimTime = Now],
          err |-> NoErr]

\* taskServiceImpl.Claim
Claim(s, taskID, userID) ==
    IF taskID \notin DOMAIN s.tasks
    THEN [s |-> s, err |-> Errorf("NotFound")]
    ELSE IF s.tasks[taskID].Assignee # "" /\ s.tasks[taskID].Assignee # userID
    THEN [s |-> s, err |-> Errorf("AlreadyClaimed")]
    ELSE [s |-> [s EXCEPT !.tasks[taskID].Assignee = userID,
                          !.tasks[taskID].ClaimTime = Now],
          err |-> NoErr]

\* the Unclaim that clears the assignee and leaves the claim time
UnclaimKeepingClaimTime(s, taskID) ==
    IF taskID \notin DOMAIN s.tasks
    THEN [s |-> s, err |-> Errorf("NotFound")]
    ELSE [s |-> [s EXCEPT !.tasks[taskID].Assignee = ""], err |-> NoErr]

\* taskServiceImpl.Unclaim
Unclaim(s, taskID) ==
    IF taskID \notin DOMAIN s.tasks
    THEN [s |-> s, err |-> Errorf("NotFound")]
    ELSE [s |-> [s EXCEPT !.tasks[taskID].Assignee = "",
                          !.tasks[taskID].ClaimTime = NilTime],
          err |-> NoErr]

\* taskServiceImpl.SetAssignee
SetAssignee(s, taskID, userID) ==
    IF taskID \notin DOMAIN s.tasks
    THEN [s |-> s, err |-> Errorf("NotFound")]
    ELSE [s |-> [s EXCEPT !.tasks[taskID].Assignee = userID], err |-> NoErr]

\* taskServiceImpl.SetOwner
SetOwner(s, taskID, userID) ==
    IF taskID \notin DOMAIN s.tasks
    THEN [s |-> s, err |-> Errorf("NotFound")]
    ELSE [s |-> [s EXCEPT !.tasks[taskID].Owner = userID], err |-> NoErr]

\* the AddCandidateUser that appends without looking for the user
AddCandidateUserUnchecked(s, taskID, userID) ==
    IF taskID \notin DOMAIN s.tasks
    THEN [s |-> s, err |-> Errorf("NotFound")]
    ELSE [s |-> [s EXCEPT !.tasks[taskID].CandidateUsers = Append(@, userID)],
          err |-> NoErr]

\* taskServiceImpl.AddCandidateUser
AddCandidateUser(s, taskID, userID) ==
    IF taskID \notin DOMAIN s.tasks
    THEN [s |-> s, err |-> Errorf("NotFound")]
    ELSE IF Contains(s.tasks[taskID].CandidateUsers, userID)
    THEN [s |-> s, err |-> NoErr]
    ELSE [s |-> [s EXCEPT !.tasks[taskID].CandidateUsers = Append(@, userID)],
          err |-> NoErr]

\* taskServiceImpl.AddCandidateGroup
AddCandidateGroup(s, taskID, groupID) ==
    IF taskID \notin DOMAIN s.tasks
    THEN [s |-> s, err |-> Errorf("NotFound")]
    ELSE IF Contains(s.tasks[taskID].CandidateGroups, groupID)
    THEN [s |-> s, err |-> NoErr]
    ELSE [s |-> [s EXCEPT !.tasks[taskID].CandidateGroups = Append(@, groupID)],
          err |-> NoErr]

\* taskServiceImpl.DeleteCandidateUser
DeleteCandidateUser(s, taskID, userID) ==
    IF taskID \notin DOMAIN s.tasks
    THEN [s |-> s, err |-> Errorf("NotFound")]
    ELSE [s |-> [s EXCEPT !.tasks[taskID].CandidateUsers = RemoveFirst(@, userID)],
          err |-> NoErr]

\* taskServiceImpl.DeleteCandidateGroup
DeleteCandidateGroup(s, taskID, groupID) ==
    IF taskID \notin DOMAIN s.tasks
    THEN [s |-> s, err |-> Errorf("NotFound")]
    ELSE [s |-> [s EXCEPT !.tasks[taskID].CandidateGroups = RemoveFirst(@, groupID)],
          err |-> NoErr]

\* ClaimTaskCommand.Execute, on the engine's task service
ClaimTaskCommandExecute(s, taskID, userID) ==
    IF taskID = "" \/ userID = ""
    THEN [s |-> s, err |-> Errorf("InvalidArgument")]
    ELSE LET g == GetTask(s, taskID)
             task == g.task
         IN  IF g.err = Panic THEN [s |-> s, err |-> Panic]
             ELSE IF g.err # NoErr THEN [s |-> s, err |-> Wrap("NotFound", g.err)]
             ELSE IF task.Assignee # "" /\ task.Assignee # userID
             THEN [s |-> s, err |-> Errorf("AlreadyClaimed")]
             ELSE IF Len(task.CandidateUsers) > 0 /\ ~Contains(task.CandidateUsers, userID)
             THEN [s |-> s, err |-> Errorf("NotCandidate")]
             ELSE LET c == Claim(s, taskID, userID)
                  IN  IF c.err # NoErr
                      THEN [s |-> s, err |-> Wrap("ClaimFailed", c.err)]
                      ELSE [s |-> c.s, err |-> NoErr]

\* taskServiceImpl.AddComment (a comment is its message)
AddComment(s, taskID, message) ==
    IF taskID \notin DOMAIN s.tasks
    THEN [s |-> s, err |-> Errorf("NotFound")]
    ELSE [s |-> [s EXCEPT !.comments =
                    MapPut(@, taskID, Append(IF taskID \in DOMAIN @ THEN @[taskID] ELSE <<>>,
                                             message))],
          err |-> NoErr]

\* taskServiceImpl.CreateAttachment (an attachment is its name)
CreateAttachment(s, taskID, attachmentName) ==
    IF taskID \notin DOMAIN s.tasks
    THEN [s |-> s, err |-> Errorf("NotFound")]
    ELSE [s |-> [s EXCEPT !.attachments =
                    MapPut(@, taskID, Append(IF taskID \in DOMAIN @ THEN @[taskID] ELSE <<>>,
                                             attachmentName))],
          err |-> NoErr]

\* taskServiceImpl.SetTaskVariable
SetTaskVariable(s, taskID, variableName, value) ==
    IF taskID \notin DOMAIN s.tasks
    THEN [s |-> s, err |-> Errorf("NotFound")]
    ELSE LET scope == IF taskID \in DOMAIN s.variables THEN s.variables[taskID] ELSE EmptyMap
         IN  [s |-> [s EXCEPT !.variables = MapPut(@, taskID, MapPut(scope, variableName, value))],
              err |-> NoErr]

\* taskServiceImpl.CompleteWithVariables without the final delete(s.tasks, taskID)
CompleteKeepingTask(s, rt, taskID, vs) ==
    IF taskID \notin DOMAIN s.tasks
    THEN [s |-> s, rt |-> rt, err |-> Errorf("NotFound"), signalled |-> FALSE]
    ELSE LET task == s.tasks[taskID]
             set  == IF vs # NilMap /\ task.ExecutionID # NoID
                     THEN SetVariables(rt, task.ExecutionID, vs)
                     ELSE [rt |-> rt, err |-> NoErr]
             sig  == IF task.ExecutionID # NoID
                     THEN Signal(set.rt, task.ExecutionID)
                     ELSE [rt |-> set.rt, err |-> NoErr]
         IN  IF set.err # NoErr
             THEN [s |-> s, rt |-> set.rt,
                   err |-> Wrap("VariablePropagationFailed", set.err), signalled |-> FALSE]
             ELSE IF sig.err # NoErr
             THEN [s |-> s, rt |-> sig.rt,
                   err |-> Wrap("SignalFailed", sig.err), signalled |-> FALSE]
             ELSE [s |-> s, rt |-> sig.rt,
                   err |-> NoErr, signalled |-> task.ExecutionID # NoID]

\* the CompleteWithVariables that deletes the task before it calls the runtime
\* store, so that a failed call has dropped it
CompleteDroppingTask(s, rt, taskID, vs) ==
    LET r == CompleteKeepingTask(s, rt, taskID, vs)
    IN  [r EXCEPT !.s = [s EXCEPT !.tasks = MapDelete(@, taskID)]]

\* taskServiceImpl.CompleteWithVariables: signalled says whether
\* runtimeService.Signal accepted a signal for the task's execution
CompleteWithVariables(s, rt, taskID, vs) ==
    IF taskID \notin DOMAIN s.tasks
    THEN [s |-> s, rt |-> rt, err |-> Errorf("NotFound"), signalled |-> FALSE]
    ELSE LET task == s.tasks[taskID]
             set  == IF vs # NilMap /\ task.ExecutionID # NoID
                     THEN SetVariables(rt, task.ExecutionID, vs)
                     ELSE [rt |-> rt, err |-> NoErr]
             sig  == IF task.ExecutionID # NoID
                     THEN Signal(set.rt, task.ExecutionID)
                     ELSE [rt |-> set.rt, err |-> NoErr]
         IN  IF set.err # NoErr
             THEN [s |-> s, rt |-> set.rt,
                   err |-> Wrap("VariablePropagationFailed", set.err), signalled |-> FALSE]
             ELSE IF sig.err # NoErr
             THEN [s |-> s, rt |-> sig.rt,
                   err |-> Wrap("SignalFailed", sig.err), signalled |-> FALSE]
             ELSE [s |-> [s EXCEPT !.tasks = MapDelete(@, taskID)], rt |-> sig.rt,
                   err |-> NoErr, signalled |-> task.ExecutionID # NoID]

\* taskServiceImpl.Complete
Complete(s, rt, taskID) == CompleteWithVariables(s, rt, taskID, NilMap)

\* CompleteTaskCommand.Execute, on the engine's task and runtime services
CompleteTaskCommandExecute(s, rt, taskID, vs) ==
    IF taskID = ""
    THEN [s |-> s, rt |-> rt, err |-> Errorf("InvalidArgument"), signalled |-> FALSE]
    ELSE LET g    == GetTask(s, taskID)
             task == g.task
             set  == IF vs # NilMap /\ DOMAIN vs # {} /\ task.ExecutionID # NoID
                     THEN SetVariables(rt, task.ExecutionID, vs)
                     ELSE [rt |-> rt, err |-> NoErr]
             done == Complete(s, set.rt, taskID)
         IN  IF g.err = Panic
             THEN [s |-> s, rt |-> rt, err |-> Panic, signalled |-> FALSE]
             ELSE IF g.err # NoErr
             THEN [s |-> s, rt |-> rt, err |-> Wrap("NotFound", g.err), signalled |-> FALSE]
             ELSE IF task.Suspended
             THEN [s |-> s, rt |-> rt, err |-> Errorf("TaskSuspended"), signalled |-> FALSE]
             ELSE IF set.err # NoErr
             THEN [s |-> s, rt |-> set.rt,
                   err |-> Wrap("VariablePropagationFailed", set.err), signalled |-> FALSE]
             ELSE IF done.err # NoErr
             THEN [done EXCEPT !.err = Wrap("CompleteFailed", done.err)]
             ELSE done

----------------------------------------------------------------------------
(* The inputs the callers draw from.                                        *)

TaskIDs == {"t1", "t2"}

Users == {"u1", "u2", "u3"}

Groups == {"g1"}

VarNames == {"a", "b"}

\* the maps a caller passes as variables: nil, empty, and two that overlap
VarMaps == {NilMap, EmptyMap, [k \in {"a"} |-> 1], [k \in {"a", "b"} |-> 2]}

\* the process definitions a caller starts instances of
ProcessDefinitions ==
    {[ID |-> "d1", Suspended |-> FALSE], [ID |-> "d2", Suspended |-> TRUE]}

\* uuid.New() is called at most this often
MaxInstances == 1

\* at most this many comments and attachments are added to one task
MaxNotes == 1

\* the keys ("id" fields) of the deployed process resources
Keys == {"k1"}

\* the versions a key is deployed in
Versions == 1 .. 2

\* the goroutines that call the runtime store at the same time
Goroutines == {"g1", "g2", "g3"}

\* the goroutines that call the runtime store
RaceGoroutines == {"g1", "g2"}

\* sync.RWMutex: the goroutine holding the write lock, and those holding read locks
NoGoroutine == "none"

Unlocked == [writer |-> NoGoroutine, readers |-> {}]

\* a goroutine that is in no call
Idle == [op |-> "idle", pc |-> "idle"]

Store == TaskStore(tasks, comments, attachments, taskVariables)

Runtime == RuntimeStore(processInstances, executions, variables, nextID)

SetStore(s) ==
    /\ tasks' = s.tasks
    /\ comments' = s.comments
    /\ attachments' = s.attachments
    /\ taskVariables' = s.variables

SetRuntime(rt) ==
    /\ processInstances' = rt.processInstances
    /\ executions' = rt.executions
    /\ variables' = rt.variables
    /\ nextID' = rt.nextID

Init ==
    /\ tasks = EmptyMap
    /\ comments = EmptyMap
    /\ attachments = EmptyMap
    /\ taskVariables = EmptyMap
    /\ processInstances = EmptyMap
    /\ executions = EmptyMap
    /\ variables = EmptyMap
    /\ nextID = 1
    /\ ret = [op |-> "none"]
    /\ builder = NewDefaultCommandExecutorBuilder
    /\ executor = [panicked |-> FALSE, chain |-> <<>>]
    /\ trav = NoTraversal
    /\ definitions = EmptyMap
    /\ rtMu = Unlocked
    /\ calls = [g \in Goroutines |-> Idle]
    /\ taskMu = Unlocked
    /\ heap = <<>>
    /\ scopes = [runtime |-> EmptyMap, task |-> EmptyMap]
    /\ held = EmptyMap
    /\ running = FALSE
    /\ deployments = EmptyMap
    /\ nextUUID = 1
    /\ repoMu = Unlocked
    /\ engineMu = Unlocked

----------------------------------------------------------------------------
(* One action per call of a handler or command. Each records in ret what    *)
(* was called and what came back.                                           *)

SaveTaskCall(taskID, task) ==
    LET r == SaveTask(Store, taskID, task)
    IN  /\ SetStore(r.s)
        /\ ret' = [op |-> "SaveTask", task |-> taskID, err |-> r.err]
        /\ UNCHANGED <<rtVars, chainVars, otherVars>>

DeleteTaskCall(taskID) ==
    LET r == DeleteTask(Store, taskID)
    IN  /\ SetStore(r.s)
        /\ ret' = [op |-> "DeleteTask", task |-> taskID, err |-> r.err]
        /\ UNCHANGED <<rtVars, chainVars, otherVars>>

ClaimCall(taskID, userID) ==
    LET r == Claim(Store, taskID, userID)
    IN  /\ SetStore(r.s)
        /\ ret' = [op |-> "Claim", task |-> taskID, user |-> userID, err |-> r.err]
        /\ UNCHANGED <<rtVars, chainVars, otherVars>>

UnclaimCall(taskID) ==
    LET r == Unclaim(Store, taskID)
    IN  /\ SetStore(r.s)
        /\ ret' = [op |-> "Unclaim", task |-> taskID, err |-> r.err,
                   before |-> IF taskID \in DOMAIN tasks THEN <<tasks[taskID]>> ELSE <<>>]
        /\ UNCHANGED <<rtVars, chainVars, otherVars>>

SetAssigneeCall(taskID, userID) ==
    LET r == SetAssignee(Store, taskID, userID)
    IN  /\ SetStore(r.s)
        /\ ret' = [op |-> "SetAssignee", task |-> taskID, user |-> userID, err |-> r.err]
        /\ UNCHANGED <<rtVars, chainVars, otherVars>>

SetOwnerCall(taskID, userID) ==
    LET r == SetOwner(Store, taskID, userID)
    IN  /\ SetStore(r.s)
        /\ ret' = [op |-> "SetOwner", task |-> taskID, user |-> userID, err |-> r.err]
        /\ UNCHANGED <<rtVars, chainVars, otherVars>>

AddCandidateUserCall(taskID, userID) ==
    LET r == AddCandidateUser(Store, taskID, userID)
    IN  /\ SetStore(r.s)
        /\ ret' = [op |-> "AddCandidateUser", task |-> taskID, user |-> userID, err |-> r.err]
        /\ UNCHANGED <<rtVars, chainVars, otherVars>>

DeleteCandidateUserCall(taskID, userID) ==
    LET r == DeleteCandidateUser(Store, taskID, userID)
    IN  /\ SetStore(r.s)
        /\ ret' = [op |-> "DeleteCandidateUser", task |-> taskID, user |-> userID,
                   err |-> r.err]
        /\ UNCHANGED <<rtVars, chainVars, otherVars>>

AddCandidateGroupCall(taskID, groupID) ==
    LET r == AddCandidateGroup(Store, taskID, groupID)
    IN  /\ SetStore(r.s)
        /\ ret' = [op |-> "AddCandidateGroup", task |-> taskID, group |-> groupID,
                   err |-> r.err]
        /\ UNCHANGED <<rtVars, chainVars, otherVars>>

DeleteCandidateGroupCall(taskID, groupID) ==
    LET r == DeleteCandidateGroup(Store, taskID, groupID)
    IN  /\ SetStore(r.s)
        /\ ret' = [op |-> "DeleteCandidateGroup", task |-> taskID, group |-> groupID,
                   err |-> r.err]
        /\ UNCHANGED <<rtVars, chainVars, otherVars>>

\* ClaimTaskCommand{taskID, userID} executed; before holds the task as stored
\* when the command started (nothing when it was not stored)
ClaimTaskCommandCall(taskID, userID) ==
    LET r == ClaimTaskCommandExecute(Store, taskID, userID)
    IN  /\ SetStore(r.s)
        /\ ret' = [op |-> "ClaimTaskCommand", task |-> taskID, user |-> userID,
                   err |-> r.err,
                   before |-> IF taskID \in DOMAIN tasks THEN <<tasks[taskID]>> ELSE <<>>]
        /\ UNCHANGED <<rtVars, chainVars, otherVars>>

\* the tasks a caller of the claim operations saves: unclaimed, with or
\* without candidate users
ClaimSavedTasks ==
    {[NewTask EXCEPT !.CandidateUsers = c] : c \in {<<>>, <<"u1", "u2">>}}

\* the users the candidate mutators are called with
CandidateInputs == {"u1", "u2"}

NextClaim ==
    \/ \E t \in TaskIDs, task \in ClaimSavedTasks : SaveTaskCall(t, task)
    \/ \E t \in TaskIDs : DeleteTaskCall(t)
    \/ \E t \in TaskIDs, u \in Users : ClaimCall(t, u)
    \/ \E t \in TaskIDs : UnclaimCall(t)
    \/ \E t \in TaskIDs, u \in Users : SetAssigneeCall(t, u)
    \/ \E t \in TaskIDs, u \in CandidateInputs : AddCandidateUserCall(t, u)
    \/ \E t \in TaskIDs, u \in CandidateInputs : DeleteCandidateUserCall(t, u)
    \/ \E t \in TaskIDs, u \in Users : ClaimTaskCommandCall(t, u)

\* the task store under the claim, assignee and candidate operations
SpecClaim == Init /\ [][NextClaim]_vars

----------------------------------------------------------------------------
(* Claims about claiming a task.                                            *)

\* C1: a successful Claim(T, u1) leaves u1 as T's assignee, and every Claim(T, u2)
\* made while T has an assignee other than u2 fails with AlreadyClaimed and
\* leaves the task store, so T's assignee, as it was.
C1_ClaimIsExclusive ==
    [][ret'.op = "Claim" =>
         /\ ret'.err = NoErr => tasks'[ret'.task].Assignee = ret'.user
         /\ (/\ ret'.task \in DOMAIN tasks
             /\ tasks[ret'.task].Assignee # ""
             /\ tasks[ret'.task].Assignee # ret'.user)
            => /\ ret'.err = Errorf("AlreadyClaimed")
               /\ tasks' = tasks]_vars

\* C1 witness: a Claim by another user than the assignee has just been refused
C1_Witness ==
    /\ ret.op = "Claim"
    /\ ret.err = Errorf("AlreadyClaimed")
    /\ ret.task \in DOMAIN tasks
    /\ tasks[ret.task].Assignee \in Users \ {ret.user}
    /\ tasks[ret.task].ClaimTime = Now

\* C2: every stored task has a claim time exactly when it has an assignee.
C2_ClaimTimeIffAssignee ==
    \A t \in DOMAIN tasks : (tasks[t].ClaimTime # NilTime) <=> (tasks[t].Assignee # "")

\* C22: Unclaim(T) on a stored task succeeds and leaves T without assignee and
\* without claim time, whoever held it and also when nobody did, and changes
\* nothing else; a Claim(T, u) made next succeeds for every user u. On a task
\* that is not stored Unclaim fails with NotFound.
C22_UnclaimClears ==
    [][ret'.op = "Unclaim" =>
         IF ret'.task \in DOMAIN tasks
         THEN /\ ret'.err = NoErr
              /\ tasks' = [tasks EXCEPT ![ret'.task].Assignee = "",
                                        ![ret'.task].ClaimTime = NilTime]
              /\ \A u \in Users :
                     LET c == Claim(TaskStore(tasks', comments', attachments',
                                              taskVariables'), ret'.task, u)
                     IN  c.err = NoErr /\ c.s.tasks[ret'.task].Assignee = u
         ELSE /\ ret'.err = Errorf("NotFound")
              /\ UNCHANGED taskVars]_vars

\* C22 witness: Unclaim has taken a task from the user who had claimed it
C22_Witness ==
    /\ ret.op = "Unclaim"
    /\ ret.err = NoErr
    /\ ret.before # <<>>
    /\ ret.before[1].Assignee \in Users
    /\ ret.before[1].ClaimTime = Now
    /\ tasks[ret.task].Assignee = ""
    /\ tasks[ret.task].ClaimTime = NilTime

\* C3: ClaimTaskCommand{T, u3} on a stored task with candidate users, u3 not one
\* of them (and no other user holding the task), fails with NotCandidate and
\* leaves the task, so its assignee and claim time, as it was.
C3_NotCandidateRefused ==
    (/\ ret.op = "ClaimTaskCommand"
     /\ ret.before # <<>>
     /\ ret.before[1].Assignee \in {"", ret.user}
     /\ Len(ret.before[1].CandidateUsers) > 0
     /\ ~Contains(ret.before[1].CandidateUsers, ret.user))
    => /\ ret.err = Errorf("NotCandidate")
       /\ ret.task \in DOMAIN tasks
       /\ tasks[ret.task] = ret.before[1]

----------------------------------------------------------------------------
(* Completing tasks: the task store together with the runtime store.        *)

StartProcessInstanceCall(processDefinition, vs) ==
    /\ nextID <= MaxInstances
    /\ LET r == startProcessInstance(Runtime, processDefinition, "", vs)
       IN  /\ SetRuntime(r.rt)
           /\ ret' = [op |-> "StartProcessInstance", instance |-> r.instance, err |-> r.err]
    /\ UNCHANGED <<taskVars, chainVars, otherVars>>

DeleteProcessInstanceCall(processInstanceID) ==
    LET r == DeleteProcessInstance(Runtime, processInstanceID)
    IN  /\ SetRuntime(r.rt)
        /\ ret' = [op |-> "DeleteProcessInstance", instance |-> processInstanceID,
                   hadScope |-> processInstanceID \in DOMAIN variables, err |-> r.err]
        /\ UNCHANGED <<taskVars, chainVars, otherVars>>

GetVariablesCall(executionID) ==
    LET r == GetVariables(Runtime, executionID)
    IN  /\ ret' = [op |-> "GetVariables", execution |-> executionID,
                   result |-> r.result, err |-> r.err]
        /\ UNCHANGED <<taskVars, rtVars, chainVars, otherVars>>

GetTaskCall(taskID) ==
    LET r == GetTask(Store, taskID)
    IN  /\ ret' = [op |-> "GetTask", task |-> taskID, err |-> r.err]
        /\ UNCHANGED <<taskVars, rtVars, chainVars, otherVars>>

AddCommentCall(taskID, message) ==
    /\ taskID \in DOMAIN comments => Len(comments[taskID]) < MaxNotes
    /\ LET r == AddComment(Store, taskID, message)
       IN  /\ SetStore(r.s)
           /\ ret' = [op |-> "AddComment", task |-> taskID, err |-> r.err]
    /\ UNCHANGED <<rtVars, chainVars, otherVars>>

CreateAttachmentCall(taskID, attachmentName) ==
    /\ taskID \in DOMAIN attachments => Len(attachments[taskID]) < MaxNotes
    /\ LET r == CreateAttachment(Store, taskID, attachmentName)
       IN  /\ SetStore(r.s)
           /\ ret' = [op |-> "CreateAttachment", task |-> taskID, err |-> r.err]
    /\ UNCHANGED <<rtVars, chainVars, otherVars>>

SetTaskVariableCall(taskID, variableName, value) ==
    LET r == SetTaskVariable(Store, taskID, variableName, value)
    IN  /\ SetStore(r.s)
        /\ ret' = [op |-> "SetTaskVariable", task |-> taskID, err |-> r.err]
        /\ UNCHANGED <<rtVars, chainVars, otherVars>>

\* the previous call was a successful completion of taskID
JustCompleted(taskID) ==
    /\ ret.op \in {"Complete", "CompleteWithVariables"}
    /\ ret.task = taskID
    /\ ret.err = NoErr

\* what a completion call records: before holds the task as stored when the
\* call started (nothing when it was not stored), scope the variables its
\* execution had, again whether the call follows a successful completion of
\* the same task
Completed(op, taskID, vs, r) ==
    [op |-> op, task |-> taskID, vars |-> vs, err |-> r.err, signalled |-> r.signalled,
     before |-> IF taskID \in DOMAIN tasks THEN <<tasks[taskID]>> ELSE <<>>,
     scope |-> IF taskID \in DOMAIN tasks
               THEN GetVariables(Runtime, tasks[taskID].ExecutionID).result ELSE NilMap,
     again |-> JustCompleted(taskID)]

CompleteCall(taskID) ==
    LET r == Complete(Store, Runtime, taskID)
    IN  /\ SetStore(r.s)
        /\ SetRuntime(r.rt)
        /\ ret' = Completed("Complete", taskID, NilMap, r)
        /\ UNCHANGED <<chainVars, otherVars>>

CompleteWithVariablesCall(taskID, vs) ==
    LET r == CompleteWithVariables(Store, Runtime, taskID, vs)
    IN  /\ SetStore(r.s)
        /\ SetRuntime(r.rt)
        /\ ret' = Completed("CompleteWithVariables", taskID, vs, r)
        /\ UNCHANGED <<chainVars, otherVars>>

CompleteTaskCommandCall(taskID, vs) ==
    LET r == CompleteTaskCommandExecute(Store, Runtime, taskID, vs)
    IN  /\ SetStore(r.s)
        /\ SetRuntime(r.rt)
        /\ ret' = Completed("CompleteTaskCommand", taskID, vs, r)
        /\ UNCHANGED <<chainVars, otherVars>>

\* the task whose completion is followed
CompletedTaskIDs == {"t1"}

\* the tasks a caller of the completion operations saves: suspended or not,
\* with no execution or with the id of one that may or may not exist
CompleteSavedTasks ==
    {[NewTask EXCEPT !.Suspended = sp, !.ExecutionID = e] :
        sp \in BOOLEAN, e \in 0..MaxInstances}

\* the variables a process instance is started with
StartVarMaps == {NilMap, [k \in {"b"} |-> 3]}

NextComplete ==
    \/ \E pd \in ProcessDefinitions, vs \in StartVarMaps : StartProcessInstanceCall(pd, vs)
    \/ \E id \in 1..MaxInstances : DeleteProcessInstanceCall(id)
    \/ \E id \in 1..MaxInstances : GetVariablesCall(id)
    \/ \E t \in CompletedTaskIDs, task \in CompleteSavedTasks : SaveTaskCall(t, task)
    \/ \E t \in CompletedTaskIDs : DeleteTaskCall(t)
    \/ \E t \in CompletedTaskIDs : GetTaskCall(t)
    \/ \E t \in CompletedTaskIDs : AddCommentCall(t, "m")
    \/ \E t \in CompletedTaskIDs : CreateAttachmentCall(t, "f")
    \/ \E t \in CompletedTaskIDs : SetTaskVariableCall(t, "a", 1)
    \/ \E t \in CompletedTaskIDs : CompleteCall(t)
    \/ \E t \in CompletedTaskIDs, vs \in VarMaps : CompleteWithVariablesCall(t, vs)
    \/ \E t \in CompletedTaskIDs, vs \in VarMaps : CompleteTaskCommandCall(t, vs)

\* the task store and the runtime store under the completion operations
SpecComplete == Init /\ [][NextComplete]_vars

----------------------------------------------------------------------------
(* Claims about completing a task.                                          *)

CompleteOps == {"Complete", "CompleteWithVariables"}

\* What a successful completion of a task with an owning execution E leaves in
\* the two stores: the task is gone from the task map, GetVariables(E) holds
\* every entry of vars with the supplied value, and the other variables E had
\* are kept.
CompleteWritesVariables ==
    (/\ ret.op \in CompleteOps
     /\ ret.err = NoErr
     /\ ret.before # <<>>
     /\ ret.before[1].ExecutionID # NoID)
    => LET g == GetVariables(Runtime, ret.before[1].ExecutionID)
           given == IF ret.vars = NilMap THEN {} ELSE DOMAIN ret.vars
       IN  /\ ret.task \notin DOMAIN tasks
           /\ g.err = NoErr
           /\ \A k \in given : k \in DOMAIN g.result /\ g.result[k] = ret.vars[k]
           /\ \A k \in DOMAIN ret.scope \ given :
                  k \in DOMAIN g.result /\ g.result[k] = ret.scope[k]

\* a completion with variables has overwritten one variable of the execution
\* and kept another
CompleteWritesVariablesWitness ==
    /\ ret.op = "CompleteWithVariables"
    /\ ret.err = NoErr
    /\ ret.before # <<>>
    /\ ret.before[1].ExecutionID # NoID
    /\ ret.vars # NilMap
    /\ DOMAIN ret.vars # {}
    /\ DOMAIN ret.scope \ DOMAIN ret.vars # {}

\* C4: after Complete(T, vars) succeeds on a task with an owning execution E,
\* GetVariables(E) contains every entry of vars with the supplied value, the
\* other variables of E are kept, and GetTask(T) fails with NotFound.
C4_CompleteThenGetTaskNotFound ==
    (/\ ret.op \in CompleteOps
     /\ ret.err = NoErr
     /\ ret.before # <<>>
     /\ ret.before[1].ExecutionID # NoID)
    => /\ CompleteWritesVariables
       /\ GetTask(Store, ret.task).err = Errorf("NotFound")

\* C5: a successful Complete(T), with or without variables, removes T from the
\* task map, and a Complete(T) while T is not in the task map (so every later
\* one, in particular the next call) fails with NotFound and changes neither the
\* task store nor the runtime store.
C5_CompleteNotIdempotent ==
    [][ret'.op \in CompleteOps =>
         /\ ret'.err = NoErr => ret'.task \notin DOMAIN tasks'
         /\ (ret'.task \notin DOMAIN tasks \/ ret'.again)
            => /\ ret'.err = Errorf("NotFound")
               /\ UNCHANGED <<taskVars, rtVars>>]_vars

\* C5 witness: a Complete that directly follows a successful Complete of the same
\* task has failed with NotFound
C5_Witness ==
    /\ ret.op \in CompleteOps
    /\ ret.again
    /\ ret.err = Errorf("NotFound")
    /\ ret.task \notin DOMAIN tasks

\* C6: after a successful Complete(T, vars) the task store holds no comments, no
\* attachments and no task variables keyed by T.
C6_CompleteRemovesTaskData ==
    (ret.op \in CompleteOps /\ ret.err = NoErr)
    => /\ ret.task \notin DOMAIN comments
       /\ ret.task \notin DOMAIN attachments
       /\ ret.task \notin DOMAIN taskVariables

\* C7: Complete(T, vars) on a stored task whose suspended flag is set fails with
\* TaskSuspended, changes neither store (the task stays, nothing is written to
\* the execution's variables) and does not signal the execution.
C7_SuspendedTaskNotCompleted ==
    [][(/\ ret'.op \in CompleteOps
        /\ ret'.task \in DOMAIN tasks
        /\ tasks[ret'.task].Suspended)
       => /\ ret'.err = Errorf("TaskSuspended")
          /\ ~ret'.signalled
          /\ UNCHANGED <<taskVars, rtVars>>]_vars

\* the write of the variables or the signal of this call will fail: the task
\* is stored with an execution that the runtime store does not hold
ExecutionGone(taskID) ==
    /\ taskID \in DOMAIN tasks
    /\ tasks[taskID].ExecutionID # NoID
    /\ tasks[taskID].ExecutionID \notin DOMAIN executions

\* C31: a Complete(T, vars) of a stored task whose execution is gone returns
\* VariablePropagationFailed when vars is not nil and SignalFailed otherwise,
\* each wrapping the runtime store's error, and every Complete that returns
\* one of the two has left the task store as it was, T's record included, and
\* written nothing to the runtime store; the same call made again returns
\* the same failure.
C31_FailedCompleteKeepsTask ==
    [][ret'.op \in CompleteOps =>
         /\ ExecutionGone(ret'.task) =>
                /\ ret'.err = Wrap(IF ret'.vars # NilMap
                                   THEN "VariablePropagationFailed" ELSE "SignalFailed",
                                   Errorf("NotFound"))
                /\ CompleteWithVariables(
                       TaskStore(tasks', comments', attachments', taskVariables'),
                       RuntimeStore(processInstances', executions', variables', nextID'),
                       ret'.task, ret'.vars).err = ret'.err
         /\ (ret'.err # NoErr /\ ret'.err[1] \in {"VariablePropagationFailed", "SignalFailed"})
            => /\ ExecutionGone(ret'.task)
               /\ ~ret'.signalled
               /\ UNCHANGED <<taskVars, rtVars>>]_vars

\* a completion failed on the write of the variables or on the signal, and
\* the task is still stored as it was
C31_Witness ==
    /\ ret.op \in CompleteOps
    /\ ret.err \in {Wrap("VariablePropagationFailed", Errorf("NotFound")),
                    Wrap("SignalFailed", Errorf("NotFound"))}
    /\ ret.before # <<>>
    /\ ret.task \in DOMAIN tasks
    /\ tasks[ret.task] = ret.before[1]
    /\ ret.before[1].ExecutionID \notin DOMAIN executions

\* C35: GetTask(T) returns the stored record of T without an error when T is
\* in the task map, fails with NotFound when it is not, and changes nothing
\* in the task store, the runtime store or the repository store.
C35_GetTaskIsLookup ==
    [][ret'.op = "GetTask" =>
         /\ LET r == GetTask(Store, ret'.task)
            IN  IF ret'.task \in DOMAIN tasks
                THEN r.err = NoErr /\ r.task = tasks[ret'.task] /\ ret'.err = NoErr
                ELSE r.err = Errorf("NotFound") /\ ret'.err = Errorf("NotFound")
         /\ UNCHANGED <<taskVars, rtVars, repoVars>>]_vars

----------------------------------------------------------------------------
(* The default builder and the chain it builds.                             *)

\* the error a failing command body returns
X == Errorf("X")

\* the commands handed to the executor: nil, one that succeeds, one that fails
\* with X, one that fails with X and still returns a value, and one that
\* fails once and then succeeds
Commands ==
    {NilCommand,
     Command(<<[res |-> "r", err |-> NoErr]>>),
     Command(<<[res |-> Nil, err |-> X]>>),
     Command(<<[res |-> "r", err |-> X]>>),
     Command(<<[res |-> Nil, err |-> X], [res |-> "r", err |-> NoErr]>>)}

\* the ids of the interceptors a caller adds
CustomIDs == {"c1", "c2"}

\* a caller adds at most this many interceptors
MaxCustom == 2

\* the attempts a caller passes to WithRetry
RetryAttemptInputs == {1}

\* no executor has been built yet
NotBuilt == executor.chain = <<>>

WithLoggingCall(enabled) ==
    /\ NotBuilt
    /\ builder' = WithLogging(builder, enabled)
    /\ ret' = [op |-> "WithLogging"]
    /\ UNCHANGED <<taskVars, rtVars, executor, trav, otherVars>>

WithTransactionCall(enabled) ==
    /\ NotBuilt
    /\ builder' = WithTransaction(builder, enabled)
    /\ ret' = [op |-> "WithTransaction"]
    /\ UNCHANGED <<taskVars, rtVars, executor, trav, otherVars>>

WithRetryCall(enabled, attempts) ==
    /\ NotBuilt
    /\ builder' = WithRetry(builder, enabled, attempts)
    /\ ret' = [op |-> "WithRetry"]
    /\ UNCHANGED <<taskVars, rtVars, executor, trav, otherVars>>

AddInterceptorCall(interceptor) ==
    /\ NotBuilt
    /\ Len(builder.interceptors) < MaxCustom
    /\ builder' = AddInterceptor(builder, interceptor)
    /\ ret' = [op |-> "AddInterceptor"]
    /\ UNCHANGED <<taskVars, rtVars, executor, trav, otherVars>>

BuildCall ==
    /\ executor' = Build(builder)
    /\ ret' = [op |-> "Build"]
    /\ UNCHANGED <<taskVars, rtVars, builder, trav, otherVars>>

\* executor.Execute(ctx, command) on the built executor; hasCtx says whether
\* ctx carries a CommandContext
ExecuteCall(hasCtx, command) ==
    /\ ~NotBuilt
    /\ trav' = ExecutorExecute(executor, hasCtx, command)
    /\ ret' = [op |-> "Execute", command |-> command, hasCtx |-> hasCtx]
    /\ UNCHANGED <<taskVars, rtVars, builder, executor, otherVars>>

NextChain ==
    \/ \E enabled \in BOOLEAN : WithLoggingCall(enabled)
    \/ \E enabled \in BOOLEAN : WithTransactionCall(enabled)
    \/ \E enabled \in BOOLEAN, attempts \in RetryAttemptInputs :
           WithRetryCall(enabled, attempts)
    \/ \E id \in CustomIDs : AddInterceptorCall(CustomInterceptor(id))
    \/ BuildCall
    \/ \E hasCtx \in BOOLEAN, command \in Commands : ExecuteCall(hasCtx, command)

\* a builder configured in any order, built, and the built executor used
SpecChain == Init /\ [][NextChain]_vars

----------------------------------------------------------------------------
(* Claims about the interceptor chain.                                      *)

\* the names of a chain's interceptors, first to last
Names(chain) == [i \in DOMAIN chain |-> Name(chain[i])]

\* how often v occurs in list
Count(list, v) == Cardinality({i \in DOMAIN list : list[i] = v})

\* a non-nil command has just gone through the built chain
Traversed == ret.op = "Execute" /\ ~ret.command.isNil

\* C8: in the chain Logging, Transaction, Context, Invoker, a command whose body
\* returns error X makes Execute return an error that is X, and the Logging
\* interceptor writes exactly one start line and exactly one failure line.
C8_ErrorPropagatesLoggedOnce ==
    (/\ Traversed
     /\ Names(executor.chain) = <<"Logging", "Transaction", "Context", "Invoker">>
     /\ CommandExecute(ret.command, 1).err = X)
    => /\ ErrorsIs(trav.err, "X")
       /\ Count(trav.log, "start") = 1
       /\ Count(trav.log, "failed") = 1
       /\ Count(trav.log, "completed") = 0

\* C8 witness: the default chain has returned X for a failing command
C8_Witness ==
    /\ Traversed
    /\ Names(executor.chain) = <<"Logging", "Transaction", "Context", "Invoker">>
    /\ CommandExecute(ret.command, 1).err = X
    /\ trav.err = X
    /\ trav.log = <<"start", "failed">>

\* C33: for a chain the default builder built with retry disabled, whatever
\* its other options and custom interceptors, one Execute with a non-nil
\* command runs the command's body exactly once, whether the body succeeds or
\* fails, and returns the error of that one run.
C33_BodyRunsOnce ==
    (Traversed /\ ~builder.enableRetry)
    => /\ Len(trav.bodyRuns) = 1
       /\ trav.err = CommandExecute(ret.command, 1).err

\* C33 witness: such a chain, with a custom interceptor in it, has run a body
\* that fails on its first run and would succeed on its second
C33_Witness ==
    /\ Traversed
    /\ ~builder.enableRetry
    /\ builder.interceptors # <<>>
    /\ Len(ret.command.body) = 2
    /\ trav.err = X
    /\ Len(trav.bodyRuns) = 1

\* the order Build is to give the chain for the options of builder b
BuildOrder(b) ==
    (IF b.enableLogging THEN <<"Logging">> ELSE <<>>)
    \o (IF b.enableRetry THEN <<"Retry">> ELSE <<>>)
    \o [i \in DOMAIN b.interceptors |-> b.interceptors[i].id]
    \o (IF b.enableTransaction THEN <<"Transaction">> ELSE <<>>)
    \o <<"Context", "Invoker">>

\* The chain Build links has the order Logging, Retry, custom interceptors in
\* insertion order, Transaction, Context, Invoker, whatever the order of the
\* builder calls.
BuiltInOrder == ~NotBuilt => Names(executor.chain) = BuildOrder(builder)

\* C9: whatever the builder options and the order of the builder calls, a
\* traversal of the built chain enters Logging, Retry, the custom interceptors
\* in insertion order, Transaction, Context, Invoker, the absent ones skipped,
\* the Invoker last.
C9_EnteredInBuildOrder ==
    /\ BuiltInOrder
    /\ Traversed => trav.entered = BuildOrder(builder)

\* C10: in a chain of the default builder every run of a command body is made
\* by the CommandInvoker, which is entered once per traversal.
C10_InvokerRunsTheCommand ==
    Traversed => /\ Count(trav.entered, "Invoker") = 1
                 /\ \A k \in DOMAIN trav.bodyRuns : trav.bodyRuns[k] = "Invoker"

----------------------------------------------------------------------------
(* Executors made by NewCommandExecutor from interceptors the caller lists. *)

\* the interceptors a caller hands to NewCommandExecutor
Interceptors ==
    {[kind |-> "Logging"], [kind |-> "Transaction"], [kind |-> "Context"],
     [kind |-> "Invoker"], CustomInterceptor("c1"),
     NewRetryInterceptor(DefaultRetryAttempts),
     WithEveryErrorRetryable(NewRetryInterceptor(1)),
     WithEveryErrorRetryable(NewRetryInterceptor(2))}

\* a caller lists at most this many interceptors
MaxChain == 3

\* the lists of interceptors a caller hands over, the empty one included
Chains == UNION {[1..n -> Interceptors] : n \in 0..MaxChain}

NewCommandExecutorCall(interceptors) ==
    /\ NotBuilt
    /\ executor' = NewCommandExecutor(interceptors)
    /\ ret' = [op |-> "NewCommandExecutor"]
    /\ UNCHANGED <<taskVars, rtVars, builder, trav, otherVars>>

NextExecutor ==
    \/ \E interceptors \in Chains : NewCommandExecutorCall(interceptors)
    \/ \E hasCtx \in BOOLEAN, command \in Commands : ExecuteCall(hasCtx, command)

\* executors over any list of interceptors, used with any command
SpecExecutor == Init /\ [][NextExecutor]_vars

----------------------------------------------------------------------------
(* Claims about the single interceptors and the executor.                   *)

\* what the first interceptor's next returned on its first invocation in the
\* traversal just made
Downstream == Execute(executor.chain, 2, ret.command, ret.hasCtx, 0)

\* the first interceptor of the executor has a next, and that call returned
Forwarded == Len(executor.chain) >= 2 /\ ~Dead(Downstream)

\* C11: a RetryInterceptor with 3 attempts whose downstream fails with an error
\* the default predicate does not call retryable invokes the downstream exactly
\* once and returns a RetryExhausted error wrapping the downstream error.
C11_NonRetryableFailsOnce ==
    (/\ Traversed
     /\ Forwarded
     /\ executor.chain[1] = NewRetryInterceptor(DefaultRetryAttempts)
     /\ Downstream.err # NoErr)
    => /\ trav.res = Nil
       /\ trav.err = Wrap("RetryExhausted", Downstream.err)
       /\ ErrorsIs(trav.err, Downstream.err[1])
       /\ trav.entered = <<"Retry">> \o Downstream.entered
       /\ trav.bodyRuns = Downstream.bodyRuns
       /\ trav.log = Downstream.log

\* C11 witness: Retry with 3 attempts over a Context whose command failed with X
C11_Witness ==
    /\ Traversed
    /\ Names(executor.chain) = <<"Retry", "Context">>
    /\ executor.chain[1] = NewRetryInterceptor(DefaultRetryAttempts)
    /\ trav.err = <<"RetryExhausted", "X">>
    /\ trav.bodyRuns = <<"Context">>

C13_LoggingTransactionTransparent ==
    (/\ Traversed
     /\ Forwarded
     /\ executor.chain[1].kind \in {"Logging", "Transaction"})
    => /\ trav.res = Downstream.res
       /\ trav.err = Downstream.err

C15_NilCommandRejected ==
    (ret.op = "Execute" /\ ret.command.isNil)
    => /\ trav.res = Nil
       /\ trav.err = Errorf("InvalidArgument")
       /\ trav.entered = <<>>
       /\ trav.bodyRuns = <<>>
       /\ trav.log = <<>>
       /\ trav.ctxEvents = <<>>

\* C15 witness: a nil command was handed to an executor with interceptors
C15_Witness ==
    /\ ret.op = "Execute"
    /\ ret.command.isNil
    /\ Len(executor.chain) > 0
    /\ trav.err = Errorf("InvalidArgument")

\* C34: when a traversal enters the CommandInvoker with a ctx that carries no
\* CommandContext (no ContextInterceptor has run before it and the caller's
\* ctx has none), the call fails with an error that is ContextMissing and no
\* command body runs.
C34_InvokerNeedsContext ==
    (Traversed /\ ~ret.hasCtx /\ Count(trav.entered, "Invoker") > 0)
    => /\ trav.res = Nil
       /\ ErrorsIs(trav.err, "ContextMissing")
       /\ trav.bodyRuns = <<>>

\* C34 witness: a chain of a Logging interceptor and the Invoker was handed a
\* command that would succeed, and failed with ContextMissing
C34_Witness ==
    /\ Traversed
    /\ ~ret.hasCtx
    /\ Names(executor.chain) = <<"Logging", "Invoker">>
    /\ CommandExecute(ret.command, 1).err = NoErr
    /\ trav.entered = <<"Logging", "Invoker">>
    /\ trav.err = Errorf("ContextMissing")
    /\ trav.bodyRuns = <<>>

\* C16: one Execute call enters the first interceptor and no interceptor calls
\* back into the executor, whatever the chain NewCommandExecutor accepted.
C16_NoReentry ==
    Traversed => /\ trav.entered[1] = Name(executor.chain[1])
                 /\ trav.err # StackOverflow

----------------------------------------------------------------------------
(* Deploying, suspending and starting: the repository store together with   *)
(* the runtime store.                                                       *)

\* the keys a caller starts by: the deployed ones and one that never is
StartKeys == Keys \cup {"k0"}

\* the definition ids a caller passes: the stored ones and one that is not
DefinitionIDs == DOMAIN definitions \cup {DefinitionID("k0", 1, 0)}

\* uuid.New() is called at most this often by the runtime store
MaxStarted == 2

Repository == RepositoryStore(definitions, deployments, nextUUID)

SetRepository(repo) ==
    /\ definitions' = repo.definitions
    /\ deployments' = repo.deployments
    /\ nextUUID' = repo.nextUUID

\* a resource that is a valid process definition with "id" processID
ValidResource(processID) ==
    Resource(processID \o ".json",
             Content(TRUE, {"id", "name", "nodes", "edges"}, processID))

\* a deployment of one valid resource
DeployCall(processID) ==
    /\ Cardinality(WithKey(definitions, processID)) < Cardinality(Versions)
    /\ SetRepository(DeployInternal(Repository, <<ValidResource(processID)>>).repo)
    /\ ret' = [op |-> "Deploy", key |-> processID]
    /\ UNCHANGED <<taskVars, rtVars, chainVars, concVars, aliasVars, taskMu, engineVars,
                   repoMu>>

SuspendProcessDefinitionCall(processDefinitionID) ==
    LET r == SuspendProcessDefinition(definitions, processDefinitionID)
    IN  /\ definitions' = r.defs
        /\ ret' = [op |-> "SuspendProcessDefinition", definition |-> processDefinitionID,
                   err |-> r.err]
        /\ UNCHANGED <<taskVars, rtVars, chainVars, concVars, aliasVars, taskMu, engineVars,
                       deployments, nextUUID, repoMu>>

ActivateProcessDefinitionCall(processDefinitionID) ==
    LET r == ActivateProcessDefinition(definitions, processDefinitionID)
    IN  /\ definitions' = r.defs
        /\ ret' = [op |-> "ActivateProcessDefinition", definition |-> processDefinitionID,
                   err |-> r.err]
        /\ UNCHANGED <<taskVars, rtVars, chainVars, concVars, aliasVars, taskMu, engineVars,
                       deployments, nextUUID, repoMu>>

StartProcessInstanceByKeyCall(processDefinitionKey, vs) ==
    /\ nextID <= MaxStarted
    /\ LET r == StartProcessInstanceByKey(Runtime, definitions, processDefinitionKey, vs)
       IN  /\ SetRuntime(r.rt)
           /\ ret' = [op |-> "StartProcessInstanceByKey", key |-> processDefinitionKey,
                      instance |-> r.instance, err |-> r.err]
    /\ UNCHANGED <<taskVars, chainVars, otherVars>>

StartProcessInstanceCommandCall(processDefinitionKey, vs) ==
    /\ nextID <= MaxStarted
    /\ LET r == StartProcessInstanceCommandExecute(Runtime, definitions,
                                                  processDefinitionKey, vs)
       IN  /\ SetRuntime(r.rt)
           /\ ret' = [op |-> "StartProcessInstanceCommand", key |-> processDefinitionKey,
                      instance |-> r.instance, err |-> r.err]
    /\ UNCHANGED <<taskVars, chainVars, otherVars>>

\* SuspendProcessInstance (suspend = TRUE) or ActivateProcessInstance; before
\* holds the instance as it was stored, nothing when it was not
SetSuspendedCall(suspend, processInstanceID) ==
    LET r == IF suspend THEN SuspendProcessInstance(Runtime, processInstanceID)
                        ELSE ActivateProcessInstance(Runtime, processInstanceID)
    IN  /\ SetRuntime(r.rt)
        /\ ret' = [op |-> IF suspend THEN "SuspendProcessInstance"
                                     ELSE "ActivateProcessInstance",
                   instance |-> processInstanceID, err |-> r.err,
                   before |-> IF processInstanceID \in DOMAIN processInstances
                              THEN <<processInstances[processInstanceID]>> ELSE <<>>]
        /\ UNCHANGED <<taskVars, chainVars, otherVars>>

GetProcessDefinitionByKeyCall(key) ==
    LET r == GetProcessDefinitionByKey(definitions, key)
    IN  /\ ret' = [op |-> "GetProcessDefinitionByKey", key |-> key,
                   result |-> IF r.err = NoErr THEN <<r.result>> ELSE <<>>, err |-> r.err]
        /\ UNCHANGED <<taskVars, rtVars, chainVars, otherVars>>

NextRuntime ==
    \/ \E key \in StartKeys : GetProcessDefinitionByKeyCall(key)
    \/ \E suspend \in BOOLEAN, id \in 1 .. MaxStarted : SetSuspendedCall(suspend, id)
    \/ \E processID \in Keys : DeployCall(processID)
    \/ \E id \in DefinitionIDs : SuspendProcessDefinitionCall(id)
    \/ \E id \in DefinitionIDs : ActivateProcessDefinitionCall(id)
    \/ \E key \in StartKeys, vs \in StartVarMaps : StartProcessInstanceByKeyCall(key, vs)
    \/ \E key \in StartKeys, vs \in StartVarMaps : StartProcessInstanceCommandCall(key, vs)
    \/ \E id \in 1 .. MaxStarted : DeleteProcessInstanceCall(id)

SpecRuntime == Init /\ [][NextRuntime]_vars

\* the start-by-key calls, through the service and through the command
StartByKeyOps == {"StartProcessInstanceByKey", "StartProcessInstanceCommand"}

\* the stored definition of the key with the greatest version is suspended
LatestSuspended(key) ==
    \E id \in WithKey(definitions, key) :
        /\ definitions[id].Suspended
        /\ \A other \in WithKey(definitions, key) :
               definitions[other].Version <= definitions[id].Version

\* C17: starting a process instance by key while the latest definition of the
\* key is suspended fails with DefinitionSuspended and leaves the runtime store
\* unchanged: no process instance, no execution, no variable scope is created.
C17_SuspendedLatestNotStarted ==
    [][(ret'.op \in StartByKeyOps /\ LatestSuspended(ret'.key))
       => /\ ret'.err = Errorf("DefinitionSuspended")
          /\ ret'.instance = NoID
          /\ UNCHANGED <<processInstances, executions, variables>>]_vars

\* C17 witness: a start by key was refused although an older version of the key
\* is active
C17_Witness ==
    /\ ret.op \in StartByKeyOps
    /\ LatestSuspended(ret.key)
    /\ \E id \in WithKey(definitions, ret.key) : ~definitions[id].Suspended
    /\ ret.err = Errorf("DefinitionSuspended")

\* the executions of a process instance
ExecutionsOf(processInstanceID) ==
    {id \in DOMAIN executions : executions[id].ProcessInstanceID = processInstanceID}

\* C19: DeleteProcessInstance(P) on a stored instance removes P, every execution
\* of P and the variable scopes of those executions and leaves every other
\* instance, execution and scope as it was; on an instance that is not stored it
\* fails with NotFound and changes nothing.
C19_DeleteRemovesInstanceOnly ==
    [][ret'.op = "DeleteProcessInstance" =>
         LET P == ret'.instance
             kept == DOMAIN executions \ ExecutionsOf(P)
         IN  IF P \in DOMAIN processInstances
             THEN /\ ret'.err = NoErr
                  /\ processInstances' =
                         [id \in DOMAIN processInstances \ {P} |-> processInstances[id]]
                  /\ executions' = [id \in kept |-> executions[id]]
                  /\ variables' = [id \in DOMAIN variables \cap kept |-> variables[id]]
                  /\ UNCHANGED <<nextID, taskVars, repoVars>>
             ELSE /\ ret'.err = Errorf("NotFound")
                  /\ UNCHANGED <<taskVars, rtVars, repoVars>>]_vars

\* C19 witness: an instance that had a variable scope was deleted while another
\* instance with a variable scope stays stored
C19_Witness ==
    /\ ret.op = "DeleteProcessInstance"
    /\ ret.err = NoErr
    /\ ret.hadScope
    /\ ret.instance \notin DOMAIN processInstances \cup DOMAIN executions \cup DOMAIN variables
    /\ \E other \in DOMAIN processInstances : other \in DOMAIN variables

\* C27: GetProcessDefinitionByKey(k) returns the stored definition of key k
\* with the greatest version among the stored definitions of k, and fails with
\* NotFound exactly when no stored definition has key k.
C27_LatestVersionByKey ==
    ret.op = "GetProcessDefinitionByKey" =>
        IF WithKey(definitions, ret.key) = {}
        THEN ret.err = Errorf("NotFound") /\ ret.result = <<>>
        ELSE /\ ret.err = NoErr
             /\ \E id \in WithKey(definitions, ret.key) :
                    /\ ret.result = <<definitions[id]>>
                    /\ \A other \in WithKey(definitions, ret.key) :
                           definitions[other].Version <= definitions[id].Version

\* C27 witness: the key is stored in two versions and the lookup returned the
\* second
C27_Witness ==
    /\ ret.op = "GetProcessDefinitionByKey"
    /\ Cardinality(WithKey(definitions, ret.key)) = 2
    /\ ret.err = NoErr
    /\ ret.result[1].Version = 2

\* C23: SuspendProcessInstance / ActivateProcessInstance on a stored instance
\* succeed whatever the suspended flag was, leave it true / false and change
\* nothing else in the runtime store; on an instance that is not stored they
\* fail with NotFound and change nothing.
C23_SuspendActivateIdempotent ==
    [][ret'.op \in {"SuspendProcessInstance", "ActivateProcessInstance"} =>
         IF ret'.instance \in DOMAIN processInstances
         THEN /\ ret'.err = NoErr
              /\ processInstances' =
                     [processInstances EXCEPT ![ret'.instance].Suspended =
                         (ret'.op = "SuspendProcessInstance")]
              /\ UNCHANGED <<executions, variables, nextID>>
         ELSE /\ ret'.err = Errorf("NotFound")
              /\ UNCHANGED rtVars]_vars

\* C23 witness: an instance that was suspended already has been suspended again
C23_Witness ==
    /\ ret.op = "SuspendProcessInstance"
    /\ ret.err = NoErr
    /\ ret.before # <<>>
    /\ ret.before[1].Suspended
    /\ processInstances[ret.instance].Suspended

----------------------------------------------------------------------------
(* The variable operations and the signals of the runtime store.            *)

VariableOps ==
    {"GetVariable", "GetVariables", "SetVariable", "SetVariables", "RemoveVariable",
     "Signal", "SignalWithVariables"}

\* one of the seven operations; the reads leave the store as it is
ApplyVariableOp(rt, op, executionID, variableName, vs) ==
    CASE op = "GetVariable" ->
           [rt |-> rt, err |-> GetVariable(rt, executionID, variableName).err]
      [] op = "GetVariables" -> [rt |-> rt, err |-> GetVariables(rt, executionID).err]
      [] op = "SetVariable" -> SetVariable(rt, executionID, variableName, 1)
      [] op = "SetVariables" -> SetVariables(rt, executionID, vs)
      [] op = "RemoveVariable" -> RemoveVariable(rt, executionID, variableName)
      [] op = "Signal" -> Signal(rt, executionID)
      [] op = "SignalWithVariables" -> SignalWithVariables(rt, executionID, vs)

VariableOpCall(op, executionID, variableName, vs) ==
    LET r == ApplyVariableOp(Runtime, op, executionID, variableName, vs)
    IN  /\ SetRuntime(r.rt)
        /\ ret' = [op |-> op, execution |-> executionID, name |-> variableName,
                   vs |-> vs, err |-> r.err]
        /\ UNCHANGED <<taskVars, chainVars, otherVars>>

NextVariables ==
    \/ \E d \in ProcessDefinitions, vs \in StartVarMaps : StartProcessInstanceCall(d, vs)
    \/ \E id \in 1 .. MaxInstances : DeleteProcessInstanceCall(id)
    \/ \E op \in VariableOps, id \in 1 .. MaxInstances, k \in VarNames, vs \in StartVarMaps :
          VariableOpCall(op, id, k, vs)

SpecVariables == Init /\ [][NextVariables]_vars

\* C24: GetVariable, GetVariables, SetVariable, SetVariables, RemoveVariable,
\* Signal and SignalWithVariables on an execution id that is not stored fail
\* with NotFound and leave the runtime store unchanged; none of them creates a
\* variable scope for a missing or deleted execution.
C24_MissingExecutionNotFound ==
    [][(ret'.op \in VariableOps /\ ret'.execution \notin DOMAIN executions)
       => /\ ret'.err = Errorf("NotFound")
          /\ UNCHANGED rtVars
          /\ ret'.execution \notin DOMAIN variables']_vars

\* C24 witness: a write was refused on an execution that was started and has
\* been deleted with its instance
C24_Witness ==
    /\ ret.op \in {"SetVariable", "SetVariables", "SignalWithVariables"}
    /\ ret.execution < nextID
    /\ ret.execution \notin DOMAIN executions
    /\ ret.execution \notin DOMAIN variables
    /\ ret.err = Errorf("NotFound")

----------------------------------------------------------------------------
(* Goroutines calling the runtime store at the same time: every call is     *)
(* split at its lock, at each read and at each write of a map.              *)

\* the Lock() that does not wait for the readers to leave
CanLockDespiteReaders(mu) == mu.writer = NoGoroutine

\* the Lock() that never waits
CanLockAnyway(mu) == TRUE

\* the Lock() of a mutex that is never granted
CanLockNever(mu) == FALSE

\* s.mu.Lock() returns only while nobody holds the mutex
CanLock(mu) == mu.writer = NoGoroutine /\ mu.readers = {}

\* the RLock() that does not wait for the writer to leave
CanRLockAnyway(mu) == TRUE

\* s.mu.RLock() returns only while nobody holds the write lock
CanRLock(mu) == mu.writer = NoGoroutine

\* the calls a goroutine makes, each at its first statement
RaceCalls ==
    {[op |-> "startProcessInstance", pc |-> "lock", definition |-> d, vs |-> vs,
      id |-> NoID, err |-> NoErr] : d \in ProcessDefinitions, vs \in {NilMap, [k \in VarNames |-> 2]}}
    \cup {[op |-> "DeleteProcessInstance", pc |-> "lock", instance |-> id,
            todo |-> {}, cur |-> NoID, err |-> NoErr] : id \in 1 .. MaxInstances}
    \cup {[op |-> "GetVariables", pc |-> "rlock", execution |-> id,
            result |-> Nil, err |-> NoErr] : id \in 1 .. MaxInstances}

\* the calls in flight that will still draw an id from uuid.New()
Starting == {g \in Goroutines : /\ calls[g].op = "startProcessInstance"
                                /\ calls[g].pc \in {"lock", "check"}}

Goto(g, pc) == calls' = [calls EXCEPT ![g].pc = pc]

\* a goroutine that is in no call makes one; a GetVariables call remembers what
\* the store held for its execution, and whether no startProcessInstance was
\* half-way through its writes then
Invoke(g, call) ==
    /\ calls[g].pc \in {"idle", "done"}
    /\ call.op = "startProcessInstance" => nextID + Cardinality(Starting) <= MaxInstances
    /\ calls' = [calls EXCEPT ![g] =
           IF call.op # "GetVariables" THEN call
           ELSE [op |-> call.op, pc |-> call.pc, execution |-> call.execution,
                 result |-> call.result, err |-> call.err,
                 before |-> [settled |-> \A h \in Goroutines :
                                            ~(/\ rtMu.writer = h
                                              /\ calls[h].op = "startProcessInstance"),
                             existed |-> call.execution \in DOMAIN executions,
                             scope |-> IF call.execution \in DOMAIN variables
                                       THEN variables[call.execution] ELSE EmptyMap]]]
    /\ UNCHANGED <<taskVars, rtVars, ret, chainVars, repoVars, aliasVars, taskMu, engineVars, rtMu>>

\* s.mu.Lock()
Lock(g) ==
    /\ calls[g].pc = "lock"
    /\ CanLock(rtMu)
    /\ rtMu' = [rtMu EXCEPT !.writer = g]
    /\ Goto(g, "check")
    /\ UNCHANGED <<taskVars, rtVars, ret, chainVars, repoVars, aliasVars, taskMu, engineVars>>

\* s.mu.RLock()
RLock(g) ==
    /\ calls[g].pc = "rlock"
    /\ CanRLock(rtMu)
    /\ rtMu' = [rtMu EXCEPT !.readers = @ \cup {g}]
    /\ Goto(g, "check")
    /\ UNCHANGED <<taskVars, rtVars, ret, chainVars, repoVars, aliasVars, taskMu, engineVars>>

\* the deferred s.mu.Unlock() or s.mu.RUnlock(), and the return
Unlock(g) ==
    /\ calls[g].pc = "unlock"
    /\ rtMu' = IF calls[g].op = "GetVariables"
               THEN [rtMu EXCEPT !.readers = @ \ {g}]
               ELSE [rtMu EXCEPT !.writer = NoGoroutine]
    /\ Goto(g, "done")
    /\ UNCHANGED <<taskVars, rtVars, ret, chainVars, repoVars, aliasVars, taskMu, engineVars>>

\* runtimeServiceImpl.startProcessInstance, one statement at a time
StartStep(g) ==
    LET c == calls[g]
    IN  /\ c.op = "startProcessInstance"
        /\ \/ /\ c.pc = "check"
              /\ IF c.definition.Suspended
                 THEN /\ calls' = [calls EXCEPT ![g].pc = "unlock",
                                                ![g].err = Errorf("DefinitionSuspended")]
                      /\ UNCHANGED rtVars
                 ELSE /\ calls' = [calls EXCEPT ![g].pc = "putInstance", ![g].id = nextID]
                      /\ nextID' = nextID + 1
                      /\ UNCHANGED <<processInstances, executions, variables>>
           \/ /\ c.pc = "putInstance"
              /\ processInstances' =
                     MapPut(processInstances, c.id,
                            [ProcessDefinitionID |-> c.definition.ID, BusinessKey |-> "",
                             Suspended |-> FALSE])
              /\ Goto(g, "putExecution")
              /\ UNCHANGED <<executions, variables, nextID>>
           \/ /\ c.pc = "putExecution"
              /\ executions' =
                     MapPut(executions, c.id,
                            [ProcessInstanceID |-> c.id, ParentID |-> NoID,
                             IsActive |-> TRUE, IsScope |-> TRUE, Suspended |-> FALSE])
              /\ Goto(g, "putVariables")
              /\ UNCHANGED <<processInstances, variables, nextID>>
           \/ /\ c.pc = "putVariables"
              /\ variables' = IF c.vs # NilMap
                              THEN MapPut(variables, c.id, MapMerge(EmptyMap, c.vs))
                              ELSE variables
              /\ Goto(g, "unlock")
              /\ UNCHANGED <<processInstances, executions, nextID>>
        /\ UNCHANGED <<taskVars, ret, chainVars, repoVars, aliasVars, taskMu, engineVars, rtMu>>

\* runtimeServiceImpl.DeleteProcessInstance, one statement at a time; range
\* visits the executions in any order
DeleteStep(g) ==
    LET c == calls[g]
    IN  /\ c.op = "DeleteProcessInstance"
        /\ \/ /\ c.pc = "check"
              /\ calls' = IF c.instance \notin DOMAIN processInstances
                          THEN [calls EXCEPT ![g].pc = "unlock",
                                             ![g].err = Errorf("NotFound")]
                          ELSE [calls EXCEPT ![g].pc = "range",
                                             ![g].todo = DOMAIN executions]
              /\ UNCHANGED rtVars
           \/ /\ c.pc = "range"
              /\ IF c.todo = {}
                 THEN Goto(g, "deleteInstance")
                 ELSE \E id \in c.todo :
                        calls' = [calls EXCEPT
                           ![g].todo = @ \ {id},
                           ![g].cur = id,
                           ![g].pc = IF executions[id].ProcessInstanceID = c.instance
                                     THEN "deleteExecution" ELSE "range"]
              /\ UNCHANGED rtVars
           \/ /\ c.pc = "deleteExecution"
              /\ executions' = MapDelete(executions, c.cur)
              /\ Goto(g, "deleteVariables")
              /\ UNCHANGED <<processInstances, variables, nextID>>
           \/ /\ c.pc = "deleteVariables"
              /\ variables' = MapDelete(variables, c.cur)
              /\ Goto(g, "range")
              /\ UNCHANGED <<processInstances, executions, nextID>>
           \/ /\ c.pc = "deleteInstance"
              /\ processInstances' = MapDelete(processInstances, c.instance)
              /\ Goto(g, "unlock")
              /\ UNCHANGED <<executions, variables, nextID>>
        /\ UNCHANGED <<taskVars, ret, chainVars, repoVars, aliasVars, taskMu, engineVars, rtMu>>

\* runtimeServiceImpl.GetVariables, one statement at a time
GetVariablesStep(g) ==
    LET c == calls[g]
    IN  /\ c.op = "GetVariables"
        /\ \/ /\ c.pc = "check"
              /\ calls' = IF c.execution \notin DOMAIN executions
                          THEN [calls EXCEPT ![g].pc = "unlock",
                                             ![g].err = Errorf("NotFound")]
                          ELSE [calls EXCEPT ![g].pc = "scope", ![g].result = EmptyMap]
           \/ /\ c.pc = "scope"
              /\ Goto(g, IF c.execution \in DOMAIN variables THEN "copy" ELSE "unlock")
           \/ /\ c.pc = "copy"
              /\ calls' = [calls EXCEPT
                     ![g].pc = "unlock",
                     ![g].result = IF c.execution \in DOMAIN variables
                                   THEN MapMerge(EmptyMap, variables[c.execution])
                                   ELSE EmptyMap]
        /\ UNCHANGED <<taskVars, rtVars, ret, chainVars, repoVars, aliasVars, taskMu, engineVars, rtMu>>

NextRace ==
    \E g \in RaceGoroutines :
        \/ \E call \in RaceCalls : Invoke(g, call)
        \/ Lock(g)
        \/ RLock(g)
        \/ StartStep(g)
        \/ DeleteStep(g)
        \/ GetVariablesStep(g)
        \/ Unlock(g)

SpecRace == Init /\ [][NextRace]_vars

\* the root executions of a process instance
RootsOf(processInstanceID) ==
    {id \in ExecutionsOf(processInstanceID) : executions[id].ParentID = NoID}

\* C18: every stored process instance has exactly one root execution (empty
\* parent id), whose id is the instance id and whose ProcessInstanceID names the
\* instance; startProcessInstance makes both visible in one atomic step, so no
\* goroutine that can read the store (nobody holds the write lock, or a reader
\* holds the read lock) finds an instance without it.
C18_OneRootExecution ==
    (rtMu.writer = NoGoroutine \/ rtMu.readers # {})
    => \A p \in DOMAIN processInstances : RootsOf(p) = {p}

\* C18 witness: a GetVariables that was invoked while startProcessInstance was
\* half-way through its writes holds the read lock, and the instance that was
\* started is stored with its root execution
C18_Witness ==
    \E g \in Goroutines, h \in Goroutines :
        /\ calls[g].op = "GetVariables"
        /\ g \in rtMu.readers
        /\ ~calls[g].before.settled
        /\ calls[h].op = "startProcessInstance"
        /\ calls[h].pc = "done"
        /\ calls[h].id \in DOMAIN processInstances
        /\ RootsOf(calls[h].id) = {calls[h].id}

\* C20: a GetVariables(E) that runs at the same time as DeleteProcessInstance(P),
\* E an execution of P, returns either the complete map E had before the delete
\* or NotFound: never part of the map, and never an empty map for an execution
\* whose variables were not empty.
C20_ReadSeesAllOrNotFound ==
    \A g \in Goroutines :
        (/\ calls[g].op = "GetVariables"
         /\ calls[g].pc = "done"
         /\ calls[g].before.settled
         /\ calls[g].before.existed)
        => \/ calls[g].err = NoErr /\ calls[g].result = calls[g].before.scope
           \/ calls[g].err = Errorf("NotFound") /\ calls[g].result = Nil

\* C20 witness: a GetVariables invoked while its execution was stored with two
\* variables has returned NotFound, because the delete held the lock first
C20_Witness ==
    \E g \in Goroutines :
        /\ calls[g].op = "GetVariables"
        /\ calls[g].pc = "done"
        /\ calls[g].before.settled
        /\ calls[g].before.existed
        /\ DOMAIN calls[g].before.scope = VarNames
        /\ calls[g].err = Errorf("NotFound")

----------------------------------------------------------------------------
(* The candidate lists of a task under sequences of adds and removes.       *)

CandidateOps ==
    {"AddCandidateUser", "DeleteCandidateUser", "AddCandidateGroup", "DeleteCandidateGroup"}

\* the task the candidate operations work on, saved with or without candidates
CandidateTaskIDs == {"t1"}

CandidateSavedTasks ==
    {[NewTask EXCEPT !.CandidateUsers = us, !.CandidateGroups = gs] :
        us \in {<<>>, <<"u2", "u1">>}, gs \in {<<>>, <<"g1">>}}

\* the user or group ids the operation is called with
CandidateIDs(op) ==
    IF op \in {"AddCandidateUser", "DeleteCandidateUser"} THEN CandidateInputs ELSE Groups

ApplyCandidateOp(s, op, taskID, id) ==
    CASE op = "AddCandidateUser" -> AddCandidateUser(s, taskID, id)
      [] op = "DeleteCandidateUser" -> DeleteCandidateUser(s, taskID, id)
      [] op = "AddCandidateGroup" -> AddCandidateGroup(s, taskID, id)
      [] op = "DeleteCandidateGroup" -> DeleteCandidateGroup(s, taskID, id)

\* what the calls since the last SaveTask did last with each id of each task
\* ("none" when they did nothing), and the tasks as they were saved
NoCandidateCalls == [t \in TaskIDs |-> [id \in CandidateInputs \cup Groups |-> "none"]]

LastCandidateCalls == IF ret.op \in CandidateOps THEN ret.last ELSE NoCandidateCalls

SavedTasks == IF ret.op \in CandidateOps THEN ret.saved ELSE tasks

\* one of the four candidate operations, called by a caller that keeps track
\* of what it did last with each id
CandidateCall(op, taskID, id) ==
    LET r == ApplyCandidateOp(Store, op, taskID, id)
        did == IF op \in {"AddCandidateUser", "AddCandidateGroup"} THEN "add" ELSE "delete"
    IN  /\ SetStore(r.s)
        /\ ret' = [op |-> op, task |-> taskID, id |-> id, err |-> r.err,
                   again |-> /\ ret.op = op
                             /\ ret.task = taskID
                             /\ ret.id = id,
                   last |-> IF r.err = NoErr
                            THEN [LastCandidateCalls EXCEPT ![taskID][id] = did]
                            ELSE LastCandidateCalls,
                   saved |-> SavedTasks]
        /\ UNCHANGED <<rtVars, chainVars, otherVars>>

NextCandidates ==
    \/ \E t \in CandidateTaskIDs, task \in CandidateSavedTasks : SaveTaskCall(t, task)
    \/ \E op \in CandidateOps, t \in TaskIDs :
          \E id \in CandidateIDs(op) : CandidateCall(op, t, id)

SpecCandidates == Init /\ [][NextCandidates]_vars

NoDuplicates(list) == \A i \in DOMAIN list, j \in DOMAIN list : list[i] = list[j] => i = j

\* the list holds id exactly when the last call on id was an add, or no call
\* was made on id and the task was saved with it
FollowsLastCall(list, savedList, last, id) ==
    Contains(list, id) <=> \/ last[id] = "add"
                           \/ last[id] = "none" /\ Contains(savedList, id)

\* C21: on a task saved without duplicate candidates, after any sequence of
\* AddCandidateUser / DeleteCandidateUser / AddCandidateGroup /
\* DeleteCandidateGroup calls each candidate list holds no id twice and holds an
\* id exactly when the last call on that id was an add; so an add repeated
\* leaves one occurrence and a remove of an absent id changes nothing.
C21_CandidateListsAreSets ==
    ret.op \in CandidateOps =>
        \A t \in DOMAIN tasks :
            /\ NoDuplicates(tasks[t].CandidateUsers)
            /\ NoDuplicates(tasks[t].CandidateGroups)
            /\ \A u \in CandidateInputs :
                   FollowsLastCall(tasks[t].CandidateUsers, ret.saved[t].CandidateUsers,
                                   ret.last[t], u)
            /\ \A g \in Groups :
                   FollowsLastCall(tasks[t].CandidateGroups, ret.saved[t].CandidateGroups,
                                   ret.last[t], g)

\* C21 witness: AddCandidateUser(T, u) was called twice in a row on a task that
\* was saved without u, and u is in the list once
C21_Witness ==
    /\ ret.op = "AddCandidateUser"
    /\ ret.again
    /\ ret.err = NoErr
    /\ ~Contains(ret.saved[ret.task].CandidateUsers, ret.id)
    /\ \E i \in DOMAIN tasks[ret.task].CandidateUsers :
           /\ tasks[ret.task].CandidateUsers[i] = ret.id
           /\ \A j \in DOMAIN tasks[ret.task].CandidateUsers \ {i} :
                  tasks[ret.task].CandidateUsers[j] # ret.id

----------------------------------------------------------------------------
(* Maps as objects: a caller and a store see each other's writes exactly    *)
(* when they hold the same map. The stores' maps are kept twice: by value   *)
(* in variables and taskVariables, as every operation above computes them,  *)
(* and by address in scopes and heap, as the statements of the code place   *)
(* them.                                                                    *)

\* a nil map argument
NoAddr == 0

\* at most this many maps are made
MaxMaps == 4

\* the key and the values the writes use
AliasKeys == {"a"}

AliasValues == {1, 2}

\* handing out the map itself instead of a copy
ShareMap(h, a) == [heap |-> h, addr |-> a]

\* result := make(map[string]interface{}); for k, v := range m { result[k] = v }
CopyMap(h, a) == [heap |-> Append(h, h[a]), addr |-> Len(h) + 1]

\* make(map[string]interface{})
MakeMap(h) == [heap |-> Append(h, EmptyMap), addr |-> Len(h) + 1]

\* m[k] = v on the map at an address, made first when there is none
WriteScope(h, refs, id, k, v) ==
    IF id \in DOMAIN refs
    THEN [heap |-> [h EXCEPT ![refs[id]] = MapPut(@, k, v)], refs |-> refs]
    ELSE LET made == MakeMap(h)
         IN  [heap |-> [made.heap EXCEPT ![made.addr] = MapPut(@, k, v)],
              refs |-> MapPut(refs, id, made.addr)]

\* the copy a read returns: of the scope, or a new empty map when there is none
ReadScope(h, refs, id) ==
    IF id \in DOMAIN refs THEN CopyMap(h, refs[id]) ELSE MakeMap(h)

\* the caller makes a map of its own
MakeMapCall(m) ==
    /\ Len(heap) < MaxMaps
    /\ heap' = Append(heap, m)
    /\ held' = MapPut(held, Len(heap) + 1, m)
    /\ ret' = [op |-> "make", addr |-> Len(heap) + 1]
    /\ UNCHANGED <<taskVars, rtVars, chainVars, repoVars, concVars, taskMu, engineVars, scopes>>

\* the caller writes to a map it holds
WriteHeldMapCall(a, k, v) ==
    /\ a \in DOMAIN held
    /\ heap' = [heap EXCEPT ![a] = MapPut(@, k, v)]
    /\ held' = [held EXCEPT ![a] = MapPut(@, k, v)]
    /\ ret' = [op |-> "write", addr |-> a]
    /\ UNCHANGED <<taskVars, rtVars, chainVars, repoVars, concVars, taskMu, engineVars, scopes>>

\* startProcessInstance with a map the caller holds, or with nil
StartWithMapCall(processDefinition, a) ==
    /\ nextID <= MaxInstances
    /\ Len(heap) < MaxMaps
    /\ a \in DOMAIN held \cup {NoAddr}
    /\ LET r == startProcessInstance(Runtime, processDefinition, "",
                                     IF a = NoAddr THEN NilMap ELSE heap[a])
           copy == CopyMap(heap, a)
       IN  /\ SetRuntime(r.rt)
           /\ IF r.err = NoErr /\ a # NoAddr
              THEN /\ heap' = copy.heap
                   /\ scopes' = [scopes EXCEPT !.runtime = MapPut(@, r.instance, copy.addr)]
              ELSE UNCHANGED <<heap, scopes>>
           /\ ret' = [op |-> "StartProcessInstance", instance |-> r.instance,
                      addr |-> a, err |-> r.err]
    /\ UNCHANGED <<taskVars, chainVars, repoVars, concVars, taskMu, engineVars, held>>

\* SetVariable: s.variables[executionID][variableName] = value
SetVariableInPlaceCall(executionID, k, v) ==
    /\ Len(heap) < MaxMaps
    /\ LET r == SetVariable(Runtime, executionID, k, v)
           w == WriteScope(heap, scopes.runtime, executionID, k, v)
       IN  /\ SetRuntime(r.rt)
           /\ IF r.err = NoErr
              THEN /\ heap' = w.heap
                   /\ scopes' = [scopes EXCEPT !.runtime = w.refs]
              ELSE UNCHANGED <<heap, scopes>>
           /\ ret' = [op |-> "SetVariable", execution |-> executionID, err |-> r.err]
    /\ UNCHANGED <<taskVars, chainVars, repoVars, concVars, taskMu, engineVars, held>>

\* GetVariables: the caller holds what is returned
GetVariablesCopyCall(executionID) ==
    /\ Len(heap) < MaxMaps
    /\ LET r == GetVariables(Runtime, executionID)
           read == ReadScope(heap, scopes.runtime, executionID)
       IN  /\ IF r.err = NoErr
              THEN /\ heap' = read.heap
                   /\ held' = MapPut(held, read.addr, r.result)
              ELSE UNCHANGED <<heap, held>>
           /\ ret' = [op |-> "GetVariables", execution |-> executionID,
                      addr |-> IF r.err = NoErr THEN read.addr ELSE NoAddr, err |-> r.err]
    /\ UNCHANGED <<taskVars, rtVars, chainVars, repoVars, concVars, taskMu, engineVars, scopes>>

\* SetTaskVariable: s.variables[taskID][variableName] = value
SetTaskVariableInPlaceCall(taskID, k, v) ==
    /\ Len(heap) < MaxMaps
    /\ LET r == SetTaskVariable(Store, taskID, k, v)
           w == WriteScope(heap, scopes.task, taskID, k, v)
       IN  /\ SetStore(r.s)
           /\ IF r.err = NoErr
              THEN /\ heap' = w.heap
                   /\ scopes' = [scopes EXCEPT !.task = w.refs]
              ELSE UNCHANGED <<heap, scopes>>
           /\ ret' = [op |-> "SetTaskVariable", task |-> taskID, err |-> r.err]
    /\ UNCHANGED <<rtVars, chainVars, repoVars, concVars, taskMu, engineVars, held>>

\* taskServiceImpl.GetTaskVariables: the caller holds what is returned
GetTaskVariablesCopyCall(taskID) ==
    /\ Len(heap) < MaxMaps
    /\ taskID \in DOMAIN tasks
    /\ LET read == ReadScope(heap, scopes.task, taskID)
       IN  /\ heap' = read.heap
           /\ held' = MapPut(held, read.addr,
                             IF taskID \in DOMAIN taskVariables
                             THEN taskVariables[taskID] ELSE EmptyMap)
           /\ ret' = [op |-> "GetTaskVariables", task |-> taskID, addr |-> read.addr,
                      err |-> NoErr]
    /\ UNCHANGED <<taskVars, rtVars, chainVars, repoVars, concVars, taskMu, engineVars, scopes>>

NextAlias ==
    \/ \E m \in {EmptyMap, [k \in AliasKeys |-> 1]} : MakeMapCall(m)
    \/ \E a \in 1 .. MaxMaps, k \in AliasKeys, v \in AliasValues : WriteHeldMapCall(a, k, v)
    \/ \E d \in ProcessDefinitions, a \in 0 .. MaxMaps : StartWithMapCall(d, a)
    \/ \E id \in 1 .. MaxInstances, k \in AliasKeys, v \in AliasValues :
          SetVariableInPlaceCall(id, k, v)
    \/ \E id \in 1 .. MaxInstances : GetVariablesCopyCall(id)
    \/ \E t \in CandidateTaskIDs : SaveTaskCall(t, NewTask)
    \/ \E t \in CandidateTaskIDs, k \in AliasKeys, v \in AliasValues :
          SetTaskVariableInPlaceCall(t, k, v)
    \/ \E t \in CandidateTaskIDs : GetTaskVariablesCopyCall(t)

SpecAlias == Init /\ [][NextAlias]_vars

\* C25: no variable scope is the same map as one a caller holds: whatever the
\* caller writes to the map it passed to StartProcessInstance or to a map that
\* GetVariables / GetTaskVariables returned, the stores hold what their own
\* operations put there, and whatever the stores write later, each map a
\* caller holds contains what was returned to it plus the caller's own writes.
C25_ScopesNotAliased ==
    /\ \A e \in DOMAIN scopes.runtime :
           e \in DOMAIN variables => heap[scopes.runtime[e]] = variables[e]
    /\ \A task \in DOMAIN scopes.task :
           task \in DOMAIN taskVariables => heap[scopes.task[task]] = taskVariables[task]
    /\ \A a \in DOMAIN held : heap[a] = held[a]
    /\ \A a \in DOMAIN held :
           /\ \A e \in DOMAIN scopes.runtime : scopes.runtime[e] # a
           /\ \A task \in DOMAIN scopes.task : scopes.task[task] # a

\* C25 witness: the caller holds a map made before the execution's scope and a
\* map GetVariables returned after it, the store has just written to the scope,
\* and both maps of the caller differ from what the store holds
C25_Witness ==
    \E e \in DOMAIN scopes.runtime, a \in DOMAIN held, b \in DOMAIN held :
        /\ ret.op = "SetVariable"
        /\ ret.err = NoErr
        /\ a < scopes.runtime[e]
        /\ scopes.runtime[e] < b
        /\ heap[a] # variables[e]
        /\ heap[b] # variables[e]

----------------------------------------------------------------------------
(* The engine's lifecycle: Start, Stop and ExecuteCommand called in any     *)
(* order, one after the other.                                              *)

StartCall ==
    LET r == Start(running)
    IN  /\ running' = r.running
        /\ ret' = [op |-> "Start", wasRunning |-> running, err |-> r.err]
        /\ UNCHANGED <<taskVars, rtVars, chainVars, repoVars, concVars, aliasVars, taskMu,
                       engineMu>>

StopCall ==
    LET r == Stop(running)
    IN  /\ running' = r.running
        /\ ret' = [op |-> "Stop", wasRunning |-> running, err |-> r.err]
        /\ UNCHANGED <<taskVars, rtVars, chainVars, repoVars, concVars, aliasVars, taskMu,
                       engineMu>>

\* trav is what the call did and returned, the chain's traversal included
ExecuteCommandCall(hasCtx, command) ==
    LET o == ExecuteCommand(running, hasCtx, command)
    IN  /\ trav' = o
        /\ ret' = [op |-> "ExecuteCommand", wasRunning |-> running, err |-> o.err,
                   command |-> command, hasCtx |-> hasCtx]
        /\ UNCHANGED <<taskVars, rtVars, builder, executor, repoVars, concVars,
                       aliasVars, taskMu, engineVars>>

\* the stores GetRepositoryService and GetTaskService hand out are used
\* meanwhile: they do not look at the flag
NextEngine ==
    \/ StartCall
    \/ StopCall
    \/ \E hasCtx \in BOOLEAN, command \in Commands : ExecuteCommandCall(hasCtx, command)
    \/ \E processID \in Keys : DeployCall(processID)
    \/ \E t \in CandidateTaskIDs : SaveTaskCall(t, NewTask)

SpecEngine == Init /\ [][NextEngine]_vars

\* C28: the lifecycle is a two-state machine. Start on a running engine
\* fails and leaves it running, Stop on a stopped engine fails and leaves it
\* stopped, a Start or Stop that succeeds flips the flag and nothing else
\* changes it, and ExecuteCommand on a stopped engine fails without entering
\* an interceptor and without running the command's body.
C28_EngineLifecycle ==
    [][ /\ ret'.op = "Start" =>
             IF running THEN ret'.err # NoErr /\ running'
             ELSE ret'.err = NoErr => running'
        /\ ret'.op = "Stop" =>
             IF ~running THEN ret'.err # NoErr /\ ~running'
             ELSE ret'.err = NoErr => ~running'
        /\ running' # running => ret'.op \in {"Start", "Stop"} /\ ret'.err = NoErr
        /\ (ret'.op = "ExecuteCommand" /\ ~running) =>
             /\ ret'.err # NoErr
             /\ trav'.res = Nil
             /\ trav'.entered = <<>>
             /\ trav'.bodyRuns = <<>>
             /\ ~running' ]_vars

\* a stopped engine refused a command that has a body
C28_Witness ==
    /\ ret.op = "ExecuteCommand"
    /\ ~ret.wasRunning
    /\ ~ret.command.isNil
    /\ ret.command.body # <<>>
    /\ ret.err = Errorf("NotRunning")
    /\ ~running

----------------------------------------------------------------------------
(* Goroutines calling the task store at the same time. A call is split at   *)
(* every Lock and Unlock, at every read and write of the task map and at    *)
(* every call into another store or into the executor; pc names the         *)
(* statement the goroutine is at. The stores are filled before the first    *)
(* call, and every goroutine makes one call.                                *)

\* the saved tasks: unclaimed, without and with an execution
TaskRaceSavedTasks == {NewTask, [NewTask EXCEPT !.ExecutionID = 1]}

TaskRaceCalls ==
    {[op |-> "Claim", pc |-> "taskLock", task |-> t, user |-> u, before |-> <<>>,
      err |-> NoErr] : t \in CandidateTaskIDs, u \in Users}
    \cup {[op |-> "CompleteWithVariables", pc |-> "taskLock", task |-> t, vs |-> vs,
           before |-> <<>>, found |-> <<>>, signalled |-> FALSE, err |-> NoErr] :
             t \in CandidateTaskIDs, vs \in {NilMap, [k \in {"a"} |-> 1]}}
    \cup {[op |-> "GetTask", pc |-> "taskRLock", task |-> t, err |-> NoErr] :
             t \in CandidateTaskIDs}
    \cup {[op |-> "StartProcessInstanceByKey", pc |-> "lookupDefinition", key |-> k,
           vs |-> NilMap, err |-> NoErr] : k \in Keys}

\* no goroutine has made its call yet
AllIdle == \A g \in Goroutines : calls[g].pc = "idle"

\* the calls in flight that will still draw an id from uuid.New()
StartingByKey == Starting \cup {g \in Goroutines : calls[g].pc = "lookupDefinition"}

\* a goroutine makes its call; a Claim and a CompleteWithVariables remember
\* the task as it was stored then, and whether its execution existed
TaskInvoke(g, call) ==
    /\ calls[g].pc = "idle"
    /\ g \notin RaceGoroutines => call.op = "Claim"
    /\ call.op = "StartProcessInstanceByKey" =>
           nextID + Cardinality(StartingByKey) <= MaxStarted
    /\ calls' = [calls EXCEPT ![g] =
           IF call.op \notin {"Claim", "CompleteWithVariables"} THEN call
           ELSE [call EXCEPT !.before =
                    IF call.task \notin DOMAIN tasks THEN <<>>
                    ELSE <<[task |-> tasks[call.task],
                            alive |-> tasks[call.task].ExecutionID \in DOMAIN executions]>>]]
    /\ UNCHANGED <<taskVars, rtVars, ret, chainVars, repoVars, aliasVars, taskMu,
                   engineVars, rtMu>>

\* taskServiceImpl.Claim, one statement at a time
ClaimStep(g) ==
    LET c == calls[g]
    IN  /\ c.op = "Claim"
        /\ \/ /\ c.pc = "taskLock"
              /\ CanLock(taskMu)
              /\ taskMu' = [taskMu EXCEPT !.writer = g]
              /\ Goto(g, "check")
              /\ UNCHANGED taskVars
           \/ /\ c.pc = "check"
              /\ calls' = [calls EXCEPT ![g] =
                     IF c.task \notin DOMAIN tasks
                     THEN [c EXCEPT !.pc = "taskUnlock", !.err = Errorf("NotFound")]
                     ELSE IF /\ tasks[c.task].Assignee # ""
                             /\ tasks[c.task].Assignee # c.user
                     THEN [c EXCEPT !.pc = "taskUnlock", !.err = Errorf("AlreadyClaimed")]
                     ELSE [c EXCEPT !.pc = "assign"]]
              /\ UNCHANGED <<taskVars, taskMu>>
           \/ /\ c.pc = "assign"
              /\ tasks' = [tasks EXCEPT ![c.task].Assignee = c.user,
                                        ![c.task].ClaimTime = Now]
              /\ Goto(g, "taskUnlock")
              /\ UNCHANGED <<comments, attachments, taskVariables, taskMu>>
           \/ /\ c.pc = "taskUnlock"
              /\ taskMu' = [taskMu EXCEPT !.writer = NoGoroutine]
              /\ Goto(g, "done")
              /\ UNCHANGED taskVars
        /\ UNCHANGED <<rtVars, ret, chainVars, repoVars, aliasVars, engineVars, rtMu>>

\* taskServiceImpl.CompleteWithVariables, one statement at a time; SetVariables
\* and Signal are the runtime store's, each under the runtime store's lock
CompleteStep(g) ==
    LET c == calls[g]
        executionID == c.found[1].ExecutionID
    IN  /\ c.op = "CompleteWithVariables"
        /\ \/ /\ c.pc \in {"taskLock", "lockDelete"}
              /\ CanLock(taskMu)
              /\ taskMu' = [taskMu EXCEPT !.writer = g]
              /\ Goto(g, IF c.pc = "taskLock" THEN "lookup" ELSE "delete")
              /\ UNCHANGED <<taskVars, rtVars, rtMu>>
           \/ /\ c.pc = "lookup"
              /\ calls' = [calls EXCEPT ![g].pc = "taskUnlock",
                                        ![g].found = IF c.task \in DOMAIN tasks
                                                     THEN <<tasks[c.task]>> ELSE <<>>]
              /\ UNCHANGED <<taskVars, rtVars, rtMu, taskMu>>
           \/ /\ c.pc = "taskUnlock"
              /\ taskMu' = [taskMu EXCEPT !.writer = NoGoroutine]
              /\ calls' = [calls EXCEPT ![g] =
                     IF c.found = <<>>
                     THEN [c EXCEPT !.pc = "done", !.err = Errorf("NotFound")]
                     ELSE IF c.vs # NilMap /\ executionID # NoID
                     THEN [c EXCEPT !.pc = "setVariables"]
                     ELSE IF executionID # NoID
                     THEN [c EXCEPT !.pc = "signal"]
                     ELSE [c EXCEPT !.pc = "lockDelete"]]
              /\ UNCHANGED <<taskVars, rtVars, rtMu>>
           \/ /\ c.pc \in {"setVariables", "signal"}
              /\ CanLock(rtMu)
              /\ rtMu' = [rtMu EXCEPT !.writer = g]
              /\ Goto(g, IF c.pc = "signal" THEN "signalBody" ELSE "setVariablesBody")
              /\ UNCHANGED <<taskVars, rtVars, taskMu>>
           \/ /\ c.pc = "setVariablesBody"
              /\ LET r == SetVariables(Runtime, executionID, c.vs)
                 IN  /\ SetRuntime(r.rt)
                     /\ calls' = [calls EXCEPT ![g].pc = "setVariablesUnlock",
                                               ![g].err = r.err]
              /\ UNCHANGED <<taskVars, rtMu, taskMu>>
           \/ /\ c.pc = "signalBody"
              /\ LET r == Signal(Runtime, executionID)
                 IN  /\ SetRuntime(r.rt)
                     /\ calls' = [calls EXCEPT ![g].pc = "signalUnlock",
                                               ![g].err = r.err,
                                               ![g].signalled = r.err = NoErr]
              /\ UNCHANGED <<taskVars, rtMu, taskMu>>
           \/ /\ c.pc \in {"setVariablesUnlock", "signalUnlock"}
              /\ rtMu' = [rtMu EXCEPT !.writer = NoGoroutine]
              /\ calls' = [calls EXCEPT ![g] =
                     IF c.err # NoErr
                     THEN [c EXCEPT !.pc = "done",
                                    !.err = Wrap(IF c.pc = "signalUnlock"
                                                 THEN "SignalFailed"
                                                 ELSE "VariablePropagationFailed", c.err)]
                     ELSE [c EXCEPT !.pc = IF c.pc = "signalUnlock"
                                           THEN "lockDelete" ELSE "signal"]]
              /\ UNCHANGED <<taskVars, rtVars, taskMu>>
           \/ /\ c.pc = "delete"
              /\ tasks' = MapDelete(tasks, c.task)
              /\ Goto(g, "unlockDelete")
              /\ UNCHANGED <<comments, attachments, taskVariables, rtVars, rtMu, taskMu>>
           \/ /\ c.pc = "unlockDelete"
              /\ taskMu' = [taskMu EXCEPT !.writer = NoGoroutine]
              /\ Goto(g, "done")
              /\ UNCHANGED <<taskVars, rtVars, rtMu>>
        /\ UNCHANGED <<ret, chainVars, repoVars, aliasVars, engineVars>>

\* taskServiceImpl.GetTask, one statement at a time: at "execute" the goroutine
\* is in s.executor.Execute, and the deferred RUnlock runs when that returns
\* or panics
GetTaskStep(g) ==
    LET c == calls[g]
    IN  /\ c.op = "GetTask"
        /\ \/ /\ c.pc = "taskRLock"
              /\ CanRLock(taskMu)
              /\ taskMu' = [taskMu EXCEPT !.readers = @ \cup {g}]
              /\ Goto(g, "execute")
           \/ /\ c.pc = "execute"
              /\ calls' = [calls EXCEPT ![g].pc = "taskRUnlock",
                                        ![g].err = GetTask(Store, c.task).err]
              /\ UNCHANGED taskMu
           \/ /\ c.pc = "taskRUnlock"
              /\ taskMu' = [taskMu EXCEPT !.readers = @ \ {g}]
              /\ Goto(g, "done")
        /\ UNCHANGED <<taskVars, rtVars, ret, chainVars, repoVars, aliasVars,
                       engineVars, rtMu>>

\* runtimeServiceImpl.StartProcessInstanceByKey: the repository store's lookup,
\* then startProcessInstance with what it found
StartByKeyStep(g) ==
    LET c == calls[g]
        found == GetProcessDefinitionByKey(definitions, c.key)
    IN  /\ c.pc = "lookupDefinition"
        /\ CanRLock(repoMu)
        /\ calls' = [calls EXCEPT ![g] =
               IF found.err # NoErr
               THEN [c EXCEPT !.pc = "done",
                              !.err = Wrap("failed to get process definition", found.err)]
               ELSE [op |-> "startProcessInstance", pc |-> "lock",
                     definition |-> found.result, vs |-> c.vs, id |-> NoID,
                     err |-> NoErr]]
        /\ UNCHANGED <<taskVars, rtVars, ret, chainVars, repoVars, aliasVars, taskMu,
                       engineVars, rtMu>>

NextTaskRace ==
    \/ /\ AllIdle
       /\ \/ \E t \in CandidateTaskIDs, task \in TaskRaceSavedTasks : SaveTaskCall(t, task)
          \/ \E pd \in ProcessDefinitions : StartProcessInstanceCall(pd, NilMap)
          \/ \E processID \in Keys : DeployCall(processID)
    \/ \E g \in Goroutines :
        \/ \E call \in TaskRaceCalls : TaskInvoke(g, call)
        \/ ClaimStep(g)
        \/ CompleteStep(g)
        \/ GetTaskStep(g)
        \/ StartByKeyStep(g)
        \/ Lock(g)
        \/ StartStep(g)
        \/ Unlock(g)

SpecTaskRace == Init /\ [][NextTaskRace]_vars

\* the goroutines whose call is op on task t
CallsOf(op, t) == {g \in Goroutines : calls[g].op = op /\ calls[g].task = t}

\* every call of G has returned, and was made while the task was stored with
\* nobody as its assignee
MadeOnUnclaimed(G) ==
    \A g \in G : /\ calls[g].pc = "done"
                 /\ calls[g].before # <<>>
                 /\ calls[g].before[1].task.Assignee = ""

\* C29: when two or more goroutines have called Claim for the same stored,
\* unclaimed task, each for a different user, and all have returned, exactly
\* one call returned nil, every other returned AlreadyClaimed, and the
\* task's assignee is the user of the call that returned nil.
C29_OneClaimWins ==
    \A t \in CandidateTaskIDs :
        LET G == CallsOf("Claim", t)
        IN  (/\ Cardinality(G) >= 2
             /\ MadeOnUnclaimed(G)
             /\ \A g \in G, h \in G : g # h => calls[g].user # calls[h].user
             /\ CallsOf("CompleteWithVariables", t) = {})
            => \E w \in G :
                   /\ calls[w].err = NoErr
                   /\ \A h \in G \ {w} : calls[h].err = Errorf("AlreadyClaimed")
                   /\ t \in DOMAIN tasks
                   /\ tasks[t].Assignee = calls[w].user

\* three goroutines called Claim for the unclaimed t1, each for its own user,
\* before any of them had written the assignee; the last of them won
C29_Witness ==
    /\ CallsOf("Claim", "t1") = Goroutines
    /\ MadeOnUnclaimed(Goroutines)
    /\ \A g \in Goroutines, h \in Goroutines : g # h => calls[g].user # calls[h].user
    /\ calls["g3"].err = NoErr
    /\ calls["g1"].err = Errorf("AlreadyClaimed")
    /\ calls["g2"].err = Errorf("AlreadyClaimed")
    /\ tasks["t1"].Assignee = calls["g3"].user

\* C30: when several goroutines have called Complete or CompleteWithVariables
\* for the same stored task (one without an execution, or with one that
\* exists) and all have returned, exactly one call returned nil, every other
\* returned NotFound, and a task with an execution had it signalled by
\* exactly one of the calls.
C30_CompletedOnce ==
    \A t \in CandidateTaskIDs :
        LET G == CallsOf("CompleteWithVariables", t)
        IN  (/\ Cardinality(G) >= 2
             /\ \A g \in G : /\ calls[g].pc = "done"
                             /\ calls[g].before # <<>>
                             /\ \/ calls[g].before[1].task.ExecutionID = NoID
                                \/ calls[g].before[1].alive)
            => /\ \E w \in G :
                      /\ calls[w].err = NoErr
                      /\ \A h \in G \ {w} : calls[h].err = Errorf("NotFound")
               /\ \A g \in G :
                      calls[g].before[1].task.ExecutionID # NoID =>
                          Cardinality({h \in G : calls[h].signalled}) = 1

HoldsLock(mu, g) == mu.writer = g \/ g \in mu.readers

\* the goroutine is in a call of the runtime store
InRuntimeStore(g) ==
    \/ calls[g].op = "startProcessInstance" /\ calls[g].pc # "done"
    \/ calls[g].pc \in {"setVariables", "setVariablesBody", "setVariablesUnlock",
                        "signal", "signalBody", "signalUnlock"}

\* the goroutine is in a call of the repository store
InRepositoryStore(g) == calls[g].pc = "lookupDefinition"

\* the goroutine is in CommandExecutor.Execute
InExecutor(g) == calls[g].pc = "execute"

\* C26: no goroutine holds the task store's lock, shared or exclusive, while
\* it is in a call of the runtime store, of the repository store or of the
\* executor, and none holds the runtime store's lock while it is in a call
\* of the repository store.
C26_NoLockAcrossStores ==
    \A g \in Goroutines :
        /\ (InRuntimeStore(g) \/ InRepositoryStore(g) \/ InExecutor(g)) =>
               ~HoldsLock(taskMu, g)
        /\ InRepositoryStore(g) => ~HoldsLock(rtMu, g)

----------------------------------------------------------------------------
(* Goroutines calling the repository store at the same time. A call is      *)
(* split at its lock and at every read and write of the two maps.           *)

\* uuid.New() is called at most this often by the repository store
MaxUUID == 5

\* the resources a caller deploys: a valid definition of each key, one that
\* is not JSON and one that lacks the "edges" field
ResourceInputs ==
    {ValidResource(k) : k \in Keys}
    \cup {Resource("broken.json", Content(FALSE, {}, "")),
          Resource("partial.json", Content(TRUE, {"id", "name", "nodes"}, "k1"))}

\* deployments of one resource, and of a valid resource followed by another
DeploymentInputs ==
    {<<resource>> : resource \in ResourceInputs}
    \cup {<<ValidResource(k), resource>> : k \in Keys, resource \in ResourceInputs}

\* the deployments a caller names: the stored ones and one that is not stored
DeploymentIDs == DOMAIN deployments \cup {nextUUID}

RepositoryCalls ==
    {[op |-> "DeployInternal", pc |-> "repoLock", resources |-> resources, i |-> 1,
      deployment |-> NoID, version |-> 0, err |-> NoErr] : resources \in DeploymentInputs}
    \cup {[op |-> "DeleteDeployment", pc |-> "repoLock", deployment |-> d,
           cascade |-> cascade, err |-> NoErr] : d \in DeploymentIDs, cascade \in BOOLEAN}
    \cup {[op |-> "GetProcessModel", pc |-> "repoRLock", definition |-> id,
           stored |-> FALSE, err |-> NoErr] : id \in DefinitionIDs}

\* the ids the deployments in flight will still draw from uuid.New(), at most
Drawing ==
    LET deploying == {g \in RaceGoroutines : /\ calls[g].op = "DeployInternal"
                                             /\ calls[g].pc # "done"}
        draws[G \in SUBSET deploying] ==
            IF G = {} THEN 0
            ELSE LET g == CHOOSE x \in G : TRUE
                 IN  1 + Len(calls[g].resources) + draws[G \ {g}]
    IN  draws[deploying]

RepositoryInvoke(g, call) ==
    /\ calls[g].pc \in {"idle", "done"}
    /\ call.op = "DeployInternal" =>
           nextUUID + Drawing + Len(call.resources) <= MaxUUID
    /\ calls' = [calls EXCEPT ![g] = call]
    /\ UNCHANGED <<taskVars, rtVars, ret, chainVars, repoVars, aliasVars, taskMu,
                   engineVars, rtMu>>

\* s.mu.Lock() and s.mu.RLock() of the repository store
RepositoryLock(g) ==
    /\ \/ /\ calls[g].pc = "repoLock"
          /\ CanLock(repoMu)
          /\ repoMu' = [repoMu EXCEPT !.writer = g]
          /\ Goto(g, IF calls[g].op = "DeployInternal" THEN "newDeployment" ELSE "delete")
       \/ /\ calls[g].pc = "repoRLock"
          /\ CanRLock(repoMu)
          /\ repoMu' = [repoMu EXCEPT !.readers = @ \cup {g}]
          /\ Goto(g, "lookup")
    /\ UNCHANGED <<taskVars, rtVars, ret, chainVars, definitions, deployments, nextUUID,
                   aliasVars, taskMu, engineVars, rtMu>>

\* the Unlock() and RUnlock() of the repository store, and the return
RepositoryUnlock(g) ==
    /\ \/ /\ calls[g].pc = "repoUnlock"
          /\ repoMu' = [repoMu EXCEPT !.writer = NoGoroutine]
       \/ /\ calls[g].pc = "repoRUnlock"
          /\ repoMu' = [repoMu EXCEPT !.readers = @ \ {g}]
    /\ Goto(g, "done")
    /\ UNCHANGED <<taskVars, rtVars, ret, chainVars, definitions, deployments, nextUUID,
                   aliasVars, taskMu, engineVars, rtMu>>

\* Service.DeployInternal, one statement at a time
DeployStep(g) ==
    LET c == calls[g]
        resource == c.resources[c.i]
        invalid == ValidateProcessDefinition(resource.Content)
        processID == resource.Content.id
    IN  /\ c.op = "DeployInternal"
        /\ \/ /\ c.pc = "newDeployment"
              /\ calls' = [calls EXCEPT ![g].pc = "parse", ![g].deployment = nextUUID]
              /\ nextUUID' = nextUUID + 1
              /\ UNCHANGED <<definitions, deployments>>
           \/ /\ c.pc = "parse"
              /\ calls' = [calls EXCEPT ![g] =
                     IF ~resource.Content.json
                     THEN [c EXCEPT !.pc = "repoUnlock",
                                    !.err = Wrap("ParseFailed", Errorf("InvalidJSON"))]
                     ELSE IF invalid # NoErr
                     THEN [c EXCEPT !.pc = "repoUnlock",
                                    !.err = Wrap("InvalidDefinition", invalid)]
                     ELSE [c EXCEPT !.pc = "put",
                                    !.version = NextVersion(definitions, processID)]]
              /\ UNCHANGED <<definitions, deployments, nextUUID>>
           \/ /\ c.pc = "put"
              /\ LET def == NewProcessDefinition(processID, c.version, nextUUID,
                                                 c.deployment, resource.Name)
                 IN  definitions' = MapPut(definitions, def.ID, def)
              /\ nextUUID' = nextUUID + 1
              /\ calls' = [calls EXCEPT ![g].i = c.i + 1,
                                        ![g].pc = IF c.i < Len(c.resources)
                                                  THEN "parse" ELSE "putDeployment"]
              /\ UNCHANGED deployments
           \/ /\ c.pc = "putDeployment"
              /\ deployments' = MapPut(deployments, c.deployment,
                                       [Resources |-> c.resources])
              /\ Goto(g, "repoUnlock")
              /\ UNCHANGED <<definitions, nextUUID>>
        /\ UNCHANGED <<taskVars, rtVars, ret, chainVars, repoMu, aliasVars, taskMu,
                       engineVars, rtMu>>

\* Service.DeleteDeployment: lookup and deletes under the exclusive lock
DeleteDeploymentStep(g) ==
    LET c == calls[g]
        r == DeleteDeployment(Repository, c.deployment, c.cascade)
    IN  /\ c.op = "DeleteDeployment"
        /\ c.pc = "delete"
        /\ definitions' = r.repo.definitions
        /\ deployments' = r.repo.deployments
        /\ calls' = [calls EXCEPT ![g].pc = "repoUnlock", ![g].err = r.err]
        /\ UNCHANGED <<taskVars, rtVars, ret, chainVars, nextUUID, repoMu, aliasVars,
                       taskMu, engineVars, rtMu>>

\* Service.GetProcessModel: both lookups under the shared lock
GetProcessModelStep(g) ==
    LET c == calls[g]
    IN  /\ c.op = "GetProcessModel"
        /\ c.pc = "lookup"
        /\ calls' = [calls EXCEPT ![g].pc = "repoRUnlock",
                                  ![g].stored = c.definition \in DOMAIN definitions,
                                  ![g].err = GetProcessModel(Repository, c.definition).err]
        /\ UNCHANGED <<taskVars, rtVars, ret, chainVars, repoVars, aliasVars, taskMu,
                       engineVars, rtMu>>

NextRepository ==
    \E g \in RaceGoroutines :
        \/ \E call \in RepositoryCalls : RepositoryInvoke(g, call)
        \/ RepositoryLock(g)
        \/ DeployStep(g)
        \/ DeleteDeploymentStep(g)
        \/ GetProcessModelStep(g)
        \/ RepositoryUnlock(g)

SpecRepository == Init /\ [][NextRepository]_vars

\* the calls of op that have returned
Returned(op) ==
    {g \in RaceGoroutines : calls[g].op = op /\ calls[g].pc = "done"}

\* the stored definitions of a deployment
DefinitionsOf(deploymentID) ==
    {id \in DOMAIN definitions : definitions[id].DeploymentID = deploymentID}

\* C38: no two stored definitions share key and version, and a deployment
\* stores a definition of key k with version one greater than the greatest
\* version of k stored at that moment (1 when there is none), also when
\* deployments run at the same time
C38_VersionsUnique ==
    [][/\ \A a, b \in DOMAIN definitions' :
              (/\ definitions'[a].Key = definitions'[b].Key
               /\ definitions'[a].Version = definitions'[b].Version) => a = b
       /\ \A id \in DOMAIN definitions' \ DOMAIN definitions :
              LET def == definitions'[id]
                  versions == {definitions[x].Version : x \in WithKey(definitions, def.Key)}
              IN  /\ versions = {} => def.Version = 1
                  /\ versions # {} =>
                         \E v \in versions : /\ \A w \in versions : w <= v
                                             /\ def.Version = v + 1]_vars

\* two goroutines have each deployed key k1 and versions 1 and 2 are stored
C38_Witness ==
    /\ \A g \in RaceGoroutines : /\ g \in Returned("DeployInternal")
                                 /\ calls[g].err = NoErr
                                 /\ calls[g].resources = <<ValidResource("k1")>>
    /\ {definitions[id].Version : id \in WithKey(definitions, "k1")} = {1, 2}
    /\ \E g, h \in RaceGoroutines : calls[g].deployment # calls[h].deployment

\* C39: a deployment that failed on a resource that is not valid JSON or
\* lacks a required field has left nothing in the store: neither its
\* deployment nor a definition of a valid resource that preceded the bad one
C39_FailedDeploymentStoresNothing ==
    \A g \in Returned("DeployInternal") :
        calls[g].err # NoErr =>
            /\ calls[g].deployment \notin DOMAIN deployments
            /\ DefinitionsOf(calls[g].deployment) = {}

\* C40: whenever no caller is inside the store, every stored definition's
\* DeploymentID names a stored deployment, and GetProcessModel of a stored
\* definition has not failed for a missing deployment
C40_DeploymentStored ==
    /\ repoMu.writer = NoGoroutine =>
           \A id \in DOMAIN definitions :
               definitions[id].DeploymentID \in DOMAIN deployments
    /\ \A g \in Returned("GetProcessModel") :
           calls[g].stored => ~ErrorsIs(calls[g].err, "DeploymentNotFound")

----------------------------------------------------------------------------
(* Goroutines calling the engine at the same time. Start and Stop hold      *)
(* e.mu for their whole body; ExecuteCommand holds it shared inside         *)
(* IsRunning only.                                                          *)

EngineCalls ==
    {[op |-> op, pc |-> "engineLock", err |-> NoErr] : op \in {"Start", "Stop"}}
    \cup {[op |-> "ExecuteCommand", pc |-> "engineRLock", command |-> command,
           hasCtx |-> hasCtx, isRunning |-> FALSE, stopped |-> FALSE,
           bodyRuns |-> <<>>, err |-> NoErr]
             : command \in Commands, hasCtx \in BOOLEAN}

\* Stop has returned and no Start has been made since
Stopped ==
    /\ ~running
    /\ engineMu.writer = NoGoroutine
    /\ \E g \in RaceGoroutines : /\ calls[g].op = "Stop"
                             /\ calls[g].pc = "done"
                             /\ calls[g].err = NoErr

EngineInvoke(g, call) ==
    /\ calls[g].pc \in {"idle", "done"}
    /\ calls' = [calls EXCEPT ![g] = call]
    /\ UNCHANGED <<taskVars, rtVars, ret, chainVars, repoVars, aliasVars, taskMu,
                   engineVars, rtMu>>

\* e.mu.Lock() of Start and Stop, e.mu.RLock() of IsRunning
EngineLock(g) ==
    /\ \/ /\ calls[g].pc = "engineLock"
          /\ CanLock(engineMu)
          /\ engineMu' = [engineMu EXCEPT !.writer = g]
          /\ Goto(g, "flag")
       \/ /\ calls[g].pc = "engineRLock"
          /\ CanRLock(engineMu)
          /\ engineMu' = [engineMu EXCEPT !.readers = @ \cup {g}]
          /\ Goto(g, "isRunning")
    /\ UNCHANGED <<taskVars, rtVars, ret, chainVars, repoVars, aliasVars, taskMu,
                   running, rtMu>>

\* the deferred e.mu.Unlock() of Start and Stop, with their return, and the
\* deferred e.mu.RUnlock() of IsRunning
EngineUnlock(g) ==
    /\ \/ /\ calls[g].pc = "engineUnlock"
          /\ engineMu' = [engineMu EXCEPT !.writer = NoGoroutine]
          /\ Goto(g, "done")
       \/ /\ calls[g].pc = "engineRUnlock"
          /\ engineMu' = [engineMu EXCEPT !.readers = @ \ {g}]
          /\ Goto(g, "execute")
    /\ UNCHANGED <<taskVars, rtVars, ret, chainVars, repoVars, aliasVars, taskMu,
                   running, rtMu>>

\* the body of Start and of Stop, under the exclusive lock
LifecycleStep(g) ==
    LET c == calls[g]
        r == IF c.op = "Start" THEN Start(running) ELSE Stop(running)
    IN  /\ c.op \in {"Start", "Stop"}
        /\ c.pc = "flag"
        /\ running' = r.running
        /\ calls' = [calls EXCEPT ![g].pc = "engineUnlock", ![g].err = r.err]
        /\ UNCHANGED <<taskVars, rtVars, ret, chainVars, repoVars, aliasVars, taskMu,
                       engineMu, rtMu>>

\* ProcessEngineImpl.ExecuteCommand: IsRunning reads the flag under the
\* shared lock; the test of what it returned and commandExecutor.Execute
\* come after the lock is released. stopped remembers whether the engine
\* was stopped when the executor was entered.
ExecuteCommandStep(g) ==
    LET c == calls[g]
        o == ExecuteCommand(c.isRunning, c.hasCtx, c.command)
    IN  /\ c.op = "ExecuteCommand"
        /\ \/ /\ c.pc = "isRunning"
              /\ calls' = [calls EXCEPT ![g].pc = "engineRUnlock",
                                        ![g].isRunning = running]
           \/ /\ c.pc = "execute"
              /\ calls' = [calls EXCEPT ![g].pc = "done",
                                        ![g].stopped = Stopped,
                                        ![g].bodyRuns = o.bodyRuns,
                                        ![g].err = o.err]
        /\ UNCHANGED <<taskVars, rtVars, ret, chainVars, repoVars, aliasVars, taskMu,
                       engineVars, rtMu>>

NextEngineRace ==
    \E g \in RaceGoroutines :
        \/ \E call \in EngineCalls : EngineInvoke(g, call)
        \/ EngineLock(g)
        \/ LifecycleStep(g)
        \/ ExecuteCommandStep(g)
        \/ EngineUnlock(g)

SpecEngineRace == Init /\ [][NextEngineRace]_vars

\* C36: no command body starts after Stop has returned and before the next
\* Start, whatever Stop calls run at the same time as ExecuteCommand
C36_NoBodyAfterStop ==
    \A g \in RaceGoroutines :
        (calls[g].op = "ExecuteCommand" /\ calls[g].pc = "done" /\ calls[g].stopped)
            => calls[g].bodyRuns = <<>>

----------------------------------------------------------------------------
(* Goroutines executing ClaimTaskCommand while others change the task's     *)
(* candidate users. Every call of the task store holds s.mu for its whole   *)
(* body and is one step; the command is split at its calls of the store.    *)

ClaimCommandCalls ==
    {[op |-> "ClaimTaskCommand", pc |-> "getTask", task |-> t, user |-> u,
      assigned |-> FALSE, candidates |-> <<>>, err |-> NoErr]
         : t \in CandidateTaskIDs, u \in Users}
    \cup {[op |-> op, pc |-> "call", task |-> t, user |-> u, err |-> NoErr]
             : op \in {"AddCandidateUser", "DeleteCandidateUser"},
               t \in CandidateTaskIDs, u \in Users}

ClaimCommandInvoke(g, call) ==
    /\ calls[g].pc \in {"idle", "done"}
    /\ calls' = [calls EXCEPT ![g] = call]
    /\ UNCHANGED <<taskVars, rtVars, ret, chainVars, repoVars, aliasVars, taskMu,
                   engineVars, rtMu>>

\* ClaimTaskCommand.Execute. The task GetTask returns is the stored record
\* itself, so the tests at "check" read what the store holds then; candidates
\* is the candidate list at the moment Claim set the assignee.
ClaimTaskCommandStep(g) ==
    LET c == calls[g]
        got == GetTask(Store, c.task)
        task == tasks[c.task]
        claimed == Claim(Store, c.task, c.user)
    IN  /\ c.op = "ClaimTaskCommand"
        /\ \/ /\ c.pc = "getTask"
              /\ calls' = [calls EXCEPT ![g] =
                     IF got.err = Panic THEN [c EXCEPT !.pc = "done", !.err = Panic]
                     ELSE IF got.err # NoErr
                     THEN [c EXCEPT !.pc = "done", !.err = Wrap("NotFound", got.err)]
                     ELSE [c EXCEPT !.pc = "check"]]
              /\ UNCHANGED taskVars
           \/ /\ c.pc = "check"
              /\ calls' = [calls EXCEPT ![g] =
                     IF task.Assignee # "" /\ task.Assignee # c.user
                     THEN [c EXCEPT !.pc = "done", !.err = Errorf("AlreadyClaimed")]
                     ELSE IF /\ Len(task.CandidateUsers) > 0
                             /\ ~Contains(task.CandidateUsers, c.user)
                     THEN [c EXCEPT !.pc = "done", !.err = Errorf("NotCandidate")]
                     ELSE [c EXCEPT !.pc = "claim"]]
              /\ UNCHANGED taskVars
           \/ /\ c.pc = "claim"
              /\ SetStore(claimed.s)
              /\ calls' = [calls EXCEPT ![g] =
                     IF claimed.err # NoErr
                     THEN [c EXCEPT !.pc = "done", !.err = Wrap("ClaimFailed", claimed.err)]
                     ELSE [c EXCEPT !.pc = "done", !.assigned = TRUE,
                                    !.candidates = task.CandidateUsers]]
        /\ UNCHANGED <<rtVars, ret, chainVars, repoVars, aliasVars, taskMu, engineVars,
                       rtMu>>

\* taskServiceImpl.AddCandidateUser and DeleteCandidateUser, called directly
CandidateUserStep(g) ==
    LET c == calls[g]
        r == IF c.op = "AddCandidateUser" THEN AddCandidateUser(Store, c.task, c.user)
             ELSE DeleteCandidateUser(Store, c.task, c.user)
    IN  /\ c.op \in {"AddCandidateUser", "DeleteCandidateUser"}
        /\ c.pc = "call"
        /\ SetStore(r.s)
        /\ calls' = [calls EXCEPT ![g].pc = "done", ![g].err = r.err]
        /\ UNCHANGED <<rtVars, ret, chainVars, repoVars, aliasVars, taskMu, engineVars,
                       rtMu>>

NextClaimCommand ==
    \/ /\ AllIdle
       /\ \E t \in CandidateTaskIDs, task \in ClaimSavedTasks : SaveTaskCall(t, task)
    \/ \E g \in RaceGoroutines :
           \/ \E call \in ClaimCommandCalls : ClaimCommandInvoke(g, call)
           \/ ClaimTaskCommandStep(g)
           \/ CandidateUserStep(g)

SpecClaimCommand == Init /\ [][NextClaimCommand]_vars

----------------------------------------------------------------------------
(* Calls of the three stores made at the same time, one by each goroutine,  *)
(* after the stores were filled with at most one task, one instance and     *)
(* one deployment. A goroutine that can take its next step is scheduled in  *)
(* the end, and a goroutine waiting for a mutex gets it once it stays free. *)

\* the next statement of the call goroutine g is in
StoreStep(g) ==
    \/ ClaimStep(g)
    \/ CompleteStep(g)
    \/ GetTaskStep(g)
    \/ StartByKeyStep(g)
    \/ Lock(g)
    \/ StartStep(g)
    \/ Unlock(g)
    \/ RepositoryLock(g)
    \/ DeployStep(g)
    \/ DeleteDeploymentStep(g)
    \/ GetProcessModelStep(g)
    \/ RepositoryUnlock(g)

\* the calls made: of the task store and the runtime store with one user and
\* without variables, of the repository store with a deployment that succeeds
\* and one that fails at its second resource
StoresCalls ==
    {call \in TaskRaceCalls :
        /\ call.op = "Claim" => call.user = "u1"
        /\ call.op = "CompleteWithVariables" => call.vs = NilMap}
    \cup {call \in RepositoryCalls :
             call.op = "DeployInternal" =>
                 /\ Len(call.resources) = 2
                 /\ call.resources[2].Name # "partial.json"}

NextStores ==
    \/ /\ AllIdle
       /\ \/ /\ tasks = EmptyMap
             /\ \E t \in CandidateTaskIDs, task \in TaskRaceSavedTasks : SaveTaskCall(t, task)
          \/ /\ processInstances = EmptyMap
             /\ \E pd \in ProcessDefinitions : StartProcessInstanceCall(pd, NilMap)
          \/ /\ definitions = EmptyMap
             /\ \E processID \in Keys : DeployCall(processID)
    \/ \E g \in RaceGoroutines :
           \/ \E call \in StoresCalls :
                  IF call \in TaskRaceCalls THEN TaskInvoke(g, call)
                  ELSE calls[g].pc = "idle" /\ RepositoryInvoke(g, call)
           \/ StoreStep(g)

SpecStores ==
    /\ Init
    /\ [][NextStores]_vars
    /\ \A g \in RaceGoroutines : WF_vars(StoreStep(g))

====
